---- MODULE Spec2Model ----
(***************************************************************************)
(* githubfolio: the data-aggregation layer of the portfolio pages.         *)
(*                                                                         *)
(* Components modelled here                                                *)
(*   ProfilePage  app/[username]/page.tsx   fetchGitHubProfile + render    *)
(*   PinnedRepos  components/PinnedRepos    fetchPinnedRepos               *)
(*   ProjectDetailsPage  app/[username]/projects/[repo]/page.tsx           *)
(*                                          fetchRepoData + percentages    *)
(*   SimilarProfiles  components/SimilarProfiles.tsx  findSimilarProfiles  *)
(*   ActivityGraph  components/ActivityGraph  fetchActivityData            *)
(*   GitHubAuth  components/BottomNavigation.tsx  token verification, with *)
(*               the route app/api/github/rate-limit/route.ts it asks      *)
(*   ProjectsPage  app/[username]/projects/page.tsx  fetchRepos and the    *)
(*               filter/sort effect                                        *)
(*   token helpers lib/githubService.ts, lib/githubToken.ts                *)
(*                                                                         *)
(* One page view mounts one component (chosen in Init); every await of the *)
(* handler is a position of pc, and the code between two awaits is one     *)
(* action.  The upstream (GitHub) answers each call nondeterministically.  *)
(***************************************************************************)
EXTENDS Integers, Sequences, FiniteSets, TLC

VARIABLES
    component,      \* which component this page view mounts
    envToken,       \* process.env.NEXT_PUBLIC_GITHUB_ACCESS_TOKEN
    serverEnvToken, \* process.env.GITHUB_ACCESS_TOKEN
    localToken,     \* localStorage.getItem('github_token')
    pc,             \* position of fetchGitHubProfile
    loading,        \* ProfilePage useState: loading
    error,          \* ProfilePage useState: error
    userData,       \* ProfilePage useState: userData
    repos,          \* ProfilePage useState: repos
    pinnedRepos,    \* ProfilePage useState: pinnedRepos
    skills,         \* ProfilePage useState: skills
    reposData,      \* fetchGitHubProfile local: reposData
    calls,          \* outbound requests issued so far, in order
    got,            \* what the upstream answered to each call of the run
    prPc,           \* position of PinnedRepos.fetchPinnedRepos
    prRepos,        \* PinnedRepos prop: repos
    prLoading,      \* PinnedRepos useState: loading
    prError,        \* PinnedRepos useState: error
    prPinnedRepos,  \* PinnedRepos useState: pinnedRepos
    pdPc,           \* position of ProjectDetailsPage.fetchRepoData
    pdRepoData,     \* ProjectDetailsPage useState: repoData
    pdReadme,       \* ProjectDetailsPage useState: readme
    pdContributors, \* ProjectDetailsPage useState: contributors
    pdLanguages,    \* ProjectDetailsPage useState: languages
    pdLoading,      \* ProjectDetailsPage useState: loading
    pdError,        \* ProjectDetailsPage useState: error
    pdGot,          \* what the upstream answered to each call of fetchRepoData
    spPc,           \* position of SimilarProfiles.findSimilarProfiles
    spUser,         \* SimilarProfiles prop: user
    spRepos,        \* SimilarProfiles prop: repos
    spSimilarUsers, \* SimilarProfiles useState: similarUsers
    spLoading,      \* SimilarProfiles useState: loading
    spError,        \* SimilarProfiles useState: error
    spSet,          \* findSimilarProfiles local: similarUsersSet, in insertion order
    spItemsLeft,    \* items of the language search still to be visited
    spFollowersLeft, \* followers still to be visited
    spGot,          \* how each request of findSimilarProfiles settled, in order
    agPc,           \* position of ActivityGraph.fetchActivityData
    agActivityData, \* ActivityGraph useState: activityData
    agLoading,      \* ActivityGraph useState: loading
    agError,        \* ActivityGraph useState: error
    agRepos,        \* fetchActivityData local: repos
    agScanned,      \* names of the repositories whose participation was requested
    agGot,          \* how each request of fetchActivityData settled, in order
    gaPc,           \* GitHubAuth: before or after its mount effect
    gaToken,        \* GitHubAuth useState: token (the input field)
    gaIsAuthenticated, \* GitHubAuth useState: isAuthenticated
    gaLoading,      \* GitHubAuth useState: loading
    gaRateLimit,    \* GitHubAuth useState: rateLimit
    gaVerifying,    \* token of the handleAuthenticate call in flight, if any
    gaChecks,       \* client tokens of the checkRateLimit calls in flight
    gaOnTokenChange, \* last argument handed to the onTokenChange prop
    gaGot,          \* how the last verification settled, and the state before
    gaRouteGot,     \* the last answer of the rate-limit route
    ppPc,           \* ProjectsPage: which render's effects have run
    ppRepos,        \* ProjectsPage useState: repos
    ppFilteredRepos, \* ProjectsPage useState: filteredRepos
    ppLoading,      \* ProjectsPage useState: loading
    ppError,        \* ProjectsPage useState: error
    ppFilter,       \* ProjectsPage useState: filter
    ppSortBy,       \* ProjectsPage useState: sortBy
    ppSearchQuery,  \* ProjectsPage useState: searchQuery
    ppInFlight,     \* fetchRepos requests not settled yet
    ppGot,          \* how the last settled fetchRepos request settled
    ruPc,           \* position of each run of fetchGitHubProfile
    ruReposData,    \* fetchGitHubProfile local of each run: reposData
    ruStarted,      \* the runs in the order they were started
    ruResult,       \* whether each run ended in its try or in its catch
    ruTokenChanged, \* setToken(storedToken) awaits its render
    nvPc,           \* position of fetchRepoData of the current repo parameter
    nvRepoName,     \* params.repo
    nvVisits,       \* runs of fetchRepoData started so far
    nvStoredBy,     \* the repository whose run stored each section's value
    nvGot           \* how each section's request settled in the current run

vars == <<component, envToken, serverEnvToken, localToken, pc, loading, error,
          userData, repos, pinnedRepos, skills, reposData, calls, got,
          prPc, prRepos, prLoading, prError, prPinnedRepos,
          pdPc, pdRepoData, pdReadme, pdContributors, pdLanguages, pdLoading,
          pdError, pdGot,
          spPc, spUser, spRepos, spSimilarUsers, spLoading, spError, spSet,
          spItemsLeft, spFollowersLeft, spGot,
          agPc, agActivityData, agLoading, agError, agRepos, agScanned, agGot,
          gaPc, gaToken, gaIsAuthenticated, gaLoading, gaRateLimit, gaVerifying,
          gaChecks, gaOnTokenChange, gaGot, gaRouteGot,
          ppPc, ppRepos, ppFilteredRepos, ppLoading, ppError, ppFilter,
          ppSortBy, ppSearchQuery, ppInFlight, ppGot,
          ruPc, ruReposData, ruStarted, ruResult, ruTokenChanged,
          nvPc, nvRepoName, nvVisits, nvStoredBy, nvGot>>

pageVars == <<pc, loading, error, userData, repos, pinnedRepos, skills, reposData>>
prVars == <<prPc, prRepos, prLoading, prError, prPinnedRepos>>
pdVars == <<pdPc, pdRepoData, pdReadme, pdContributors, pdLanguages, pdLoading,
           pdError, pdGot>>
spVars == <<spPc, spUser, spRepos, spSimilarUsers, spLoading, spError, spSet,
           spItemsLeft, spFollowersLeft, spGot>>
agVars == <<agPc, agActivityData, agLoading, agError, agRepos, agScanned, agGot>>
gaVars == <<gaPc, gaToken, gaIsAuthenticated, gaLoading, gaRateLimit, gaVerifying,
           gaChecks, gaOnTokenChange, gaGot, gaRouteGot>>
ppVars == <<ppPc, ppRepos, ppFilteredRepos, ppLoading, ppError, ppFilter,
           ppSortBy, ppSearchQuery, ppInFlight, ppGot>>
ruVars == <<ruPc, ruReposData, ruStarted, ruResult, ruTokenChanged>>
nvVars == <<nvPc, nvRepoName, nvVisits, nvStoredBy, nvGot>>
envVars == <<component, envToken, serverEnvToken, localToken>>

(***************************************************************************)
(* Bounds of the model.                                                    *)
(***************************************************************************)
NCatalog == 9     \* repositories the upstream account may own
MaxPinned == 2    \* pinned items the upstream may return
Clock == 50       \* the reading of new Date() during the run
MaxLanguages == 3 \* languages the upstream may report for one repository
MaxFailures == 1  \* requests of one findSimilarProfiles run that may fail

(***************************************************************************)
(* JavaScript values.                                                      *)
(***************************************************************************)
Null == "null"              \* null
Undefined == "undefined"    \* undefined (an unset process.env entry)
EmptyStr == ""

Falsy(x) == x \in {Null, Undefined, EmptyStr}

\* a || b
OrElse(a, b) == IF Falsy(a) THEN b ELSE a

\* A parsed JSON body is an array or some other object.
JsArray(items) == [kind |-> "array", items |-> items]
JsObject == [kind |-> "object", items |-> <<>>]

Range(s) == {s[i] : i \in 1..Len(s)}

RECURSIVE SetToSeqs(_)
\* every ordering of a finite set
SetToSeqs(S) ==
    IF S = {} THEN {<<>>}
    ELSE UNION {{<<x>> \o t : t \in SetToSeqs(S \ {x})} : x \in S}

(***************************************************************************)
(* The upstream account: a catalogue of repositories whose attributes vary *)
(* with the index so that forks, equal star counts, equal push times, null *)
(* languages, repeated languages and empty homepages all occur.            *)
(***************************************************************************)
RepoNames == <<"r1", "r2", "r3", "r4", "r5", "r6", "r7", "r8", "r9", "r10", "r11", "r12">>
LanguageNames == <<"TypeScript", "JavaScript", "Python", "Go", "Rust", "C",
                   "Java", "Ruby", "Shell", "Kotlin", "Swift", "Zig">>

CatalogRepo(i) ==
    [ name |-> RepoNames[i],
      fork |-> (i % 4 = 0),
      language |-> IF i = 3 THEN Null
                   ELSE IF i = 5 THEN LanguageNames[1]
                   ELSE LanguageNames[i],
      stargazers_count |-> (i * 3) % 5,
      forks_count |-> i % 3,
      created_at |-> 1 + (i % 2),
      updated_at |-> 10 + ((i * 5) % 7),
      pushed_at |-> 3 + ((i * 5) % 7),
      homepage |-> IF i % 3 = 0 THEN EmptyStr
                   ELSE IF i % 3 = 1 THEN "https://demo" ELSE Null,
      topics |-> <<>> ]

RECURSIVE SubSeqsUpTo(_)
\* every order-preserving selection of catalogue entries 1..n
SubSeqsUpTo(n) ==
    IF n = 0 THEN {<<>>}
    ELSE LET prev == SubSeqsUpTo(n - 1)
         IN prev \cup {Append(s, CatalogRepo(n)) : s \in prev}

Reverse(s) == [i \in 1..Len(s) |-> s[Len(s) + 1 - i]]

\* The repository lists the REST endpoint may return: a selection of the
\* catalogue, in catalogue order or reversed.
RepoLists == LET base == SubSeqsUpTo(NCatalog)
             IN base \cup {Reverse(s) : s \in base}

\* Names a pinned item may carry: two names of the catalogue (the second with
\* an empty homepage) and one that differs from the first only in case, which
\* no REST list holds.
PinNames == {RepoNames[1], RepoNames[3], "R1"}

PinnedItem(n) ==
    [ name |-> n,
      description |-> Null,
      primaryLanguage |-> IF n = "R1" THEN Null ELSE "Go",
      stargazerCount |-> 2,
      forkCount |-> 1,
      repositoryTopics |-> <<"portfolio">>,
      owner |-> "octocat" ]

PinnedNameLists ==
    UNION {SetToSeqs(S) : S \in {T \in SUBSET PinNames : Cardinality(T) <= MaxPinned}}

PinnedLists == {[i \in 1..Len(ns) |-> PinnedItem(ns[i])] : ns \in PinnedNameLists}

(***************************************************************************)
(* What the upstream may answer.  A fetch either rejects (network error)   *)
(* or resolves to a response with a status; reading its body either        *)
(* rejects (malformed JSON) or yields a parsed value.                      *)
(***************************************************************************)
Statuses == {"200", "403", "404", "500"}
\* a status check that lets the not-found class through
OkOrNotFound(status) == status \in {"200", "404"}

Ok(status) == status = "200"     \* Response.ok

NoAnswer == [kind |-> "none", status |-> "", body |-> JsObject]
Thrown == [kind |-> "throw", status |-> "", body |-> JsObject]
Malformed(st) == [kind |-> "malformed", status |-> st, body |-> JsObject]
Answer(st, b) == [kind |-> "response", status |-> st, body |-> b]

\* GET /users/{username}: a profile object, or an error object.
UserAnswers ==
    {Thrown, Malformed("200")} \cup {Answer(st, JsObject) : st \in Statuses}

\* GET /users/{username}/repos: a list when the call succeeds, GitHub's error
\* object ({message, documentation_url}) otherwise.
ReposAnswers ==
    {Thrown, Malformed("200")}
    \cup {Answer("200", JsArray(l)) : l \in RepoLists}
    \cup {Answer(st, JsObject) : st \in Statuses \ {"200"}}

\* POST /graphql: pinned nodes only for a request carrying a credential; an
\* envelope without data (bad credentials, errors, user: null) otherwise.
GraphqlAnswers(auth) ==
    {Thrown, Malformed("200"), Answer("200", JsObject), Answer("401", JsObject)}
    \cup (IF Falsy(auth.cred) THEN {}
          ELSE {Answer("200", JsArray(l)) : l \in PinnedLists})

(***************************************************************************)
(* lib/githubService.ts and lib/githubToken.ts                             *)
(***************************************************************************)
NoAuth == [scheme |-> "none", cred |-> Null]
Auth(scheme, cred) == [scheme |-> scheme, cred |-> cred]

\* githubService.getGitHubToken(clientToken)
ServiceGetGitHubToken(clientToken) ==
    IF ~Falsy(serverEnvToken) THEN serverEnvToken ELSE OrElse(clientToken, Null)

\* githubToken.getGitHubToken() in the browser (typeof window defined)
GetGitHubToken ==
    IF ~Falsy(envToken) THEN envToken ELSE localToken

\* githubToken.createGitHubHeaders(): the Authorization header, if any
CreateGitHubHeaders ==
    LET token == GetGitHubToken
    IN IF ~Falsy(token) THEN Auth("token", token) ELSE NoAuth

\* page.tsx: the token of the pinned-items GraphQL request
GraphqlToken == OrElse(localToken, envToken)

Call(endpoint, auth) == [endpoint |-> endpoint, auth |-> auth]

(***************************************************************************)
(* Array helpers as the code uses them.                                    *)
(***************************************************************************)
Min(a, b) == IF a < b THEN a ELSE b

\* arr.slice(0, n)
Slice(s, n) == SubSeq(s, 1, Min(n, Len(s)))

\* arr.filter((repo) => !repo.fork)
NonFork(s) == SelectSeq(s, LAMBDA r : ~r.fork)

\* arr.sort((a, b) => key(b) - key(a)): descending, stable (ES2019);
\* keys[i] is the comparator's key of s[i]
SortDesc(s, keys) ==
    LET n == Len(s)
        Before(j, i) == keys[j] > keys[i] \/ (keys[j] = keys[i] /\ j < i)
        Rank(i) == Cardinality({j \in 1..n : Before(j, i)}) + 1
    IN [r \in 1..n |-> s[CHOOSE i \in 1..n : Rank(i) = r]]

\* new Date(iso).getTime(); timestamps are counted in units of 10^9 ms
GetTime(ts) == ts

(***************************************************************************)
(* app/[username]/page.tsx: the pure parts of fetchGitHubProfile           *)
(***************************************************************************)
FeaturedFallbackSize == 4    \* .slice(0, 4) of the render fallback
StarsFallbackSize == 6       \* .slice(0, 6) of the GraphQL catch fallback
SkillsCap == 6               \* .slice(0, 6) of the skills

\* a find that compares names without regard to case
FindByNameIgnoringCase(list, n) ==
    LET Lower(x) == IF x = "R1" THEN "r1" ELSE x
        hits == SelectSeq(list, LAMBDA r : Lower(r.name) = Lower(n))
    IN IF hits = <<>> THEN <<>> ELSE <<hits[1]>>

\* reposData.find((repo) => repo.name === item.name): <<>> stands for undefined
FindByName(list, n) ==
    LET hits == SelectSeq(list, LAMBDA r : r.name = n)
    IN IF hits = <<>> THEN <<>> ELSE <<hits[1]>>

\* a reconciliation that takes pushed_at from the record's updated_at
FormatPinnedItemUpdatedAsPushed(item, list, now) ==
    LET repoDetails == FindByName(list, item.name)
    IN [ name |-> item.name,
         fork |-> FALSE,
         language |-> OrElse(item.primaryLanguage, Null),
         stargazers_count |-> item.stargazerCount,
         forks_count |-> item.forkCount,
         created_at |-> IF repoDetails = <<>> THEN now ELSE repoDetails[1].created_at,
         updated_at |-> IF repoDetails = <<>> THEN now ELSE repoDetails[1].updated_at,
         pushed_at |-> IF repoDetails = <<>> THEN now ELSE repoDetails[1].updated_at,
         homepage |-> IF repoDetails = <<>> THEN Null
                      ELSE OrElse(repoDetails[1].homepage, Null),
         topics |-> item.repositoryTopics ]

\* One element of formattedPinnedRepos: the GraphQL shape in Repository shape.
FormatPinnedItem(item, list, now) ==
    LET repoDetails == FindByName(list, item.name)
    IN [ name |-> item.name,
         fork |-> FALSE,
         language |-> OrElse(item.primaryLanguage, Null),
         stargazers_count |-> item.stargazerCount,
         forks_count |-> item.forkCount,
         created_at |-> IF repoDetails = <<>> THEN now ELSE repoDetails[1].created_at,
         updated_at |-> IF repoDetails = <<>> THEN now ELSE repoDetails[1].updated_at,
         pushed_at |-> IF repoDetails = <<>> THEN now ELSE repoDetails[1].pushed_at,
         homepage |-> IF repoDetails = <<>> THEN Null
                      ELSE OrElse(repoDetails[1].homepage, Null),
         topics |-> item.repositoryTopics ]

\* pinnedItems.map(...)
FormattedPinnedRepos(pinnedItems, list, now) ==
    [i \in 1..Len(pinnedItems) |-> FormatPinnedItem(pinnedItems[i], list, now)]

\* The catch fallback: non-fork repositories by stars, first 6.
Stars(r) == r.stargazers_count
StarsOf(s) == [i \in 1..Len(s) |-> Stars(s[i])]
FallbackRepos(list) == Slice(SortDesc(NonFork(list), StarsOf(NonFork(list))), StarsFallbackSize)

\* The render fallback: non-fork repositories by push time, first 4.
PushedTime(r) == GetTime(r.pushed_at)
PushedTimesOf(s) == [i \in 1..Len(s) |-> PushedTime(s[i])]

\* a render fallback that keeps the forks
MostActiveWithForks(list) == Slice(SortDesc(list, PushedTimesOf(list)), FeaturedFallbackSize)

MostActive(list) ==
    Slice(SortDesc(NonFork(list), PushedTimesOf(NonFork(list))), FeaturedFallbackSize)

RECURSIVE AddLanguagesNoDedup(_, _)
\* languages collected in an array instead of a Set: repeats are kept
AddLanguagesNoDedup(list, acc) ==
    IF list = <<>> THEN acc
    ELSE LET l == Head(list).language
         IN AddLanguagesNoDedup(Tail(list), IF ~Falsy(l) THEN Append(acc, l) ELSE acc)

RECURSIVE AddLanguages(_, _)
\* reposData.forEach(repo => { if (repo.language) languages.add(repo.language) })
\* a Set keeps insertion order and ignores a value it already holds
AddLanguages(list, acc) ==
    IF list = <<>> THEN acc
    ELSE LET l == Head(list).language
         IN AddLanguages(Tail(list),
                         IF ~Falsy(l) /\ l \notin Range(acc) THEN Append(acc, l) ELSE acc)

\* Array.from(languages).slice(0, 6)
ExtractSkills(list) == Slice(AddLanguages(list, <<>>), SkillsCap)

\* `Error: ${error.message}`
ErrorText(message) == "Error: " \o message
NoError == ""
\* a message that names the failure by its status class
UserNotFoundOrUpstream(status) ==
    IF status = "404" THEN "User not found (404)"
    ELSE "Upstream error (" \o status \o ")"

UserNotFound(status) == "User not found (" \o status \o ")"

(***************************************************************************)
(* components/PinnedRepos: the pure parts of fetchPinnedRepos              *)
(***************************************************************************)
TopReposSize == 6    \* .slice(0, 6) of the heuristic

\* graphqlPinned.map(item => repos.find(...) || null).filter(Boolean)
PinnedWithFullData(graphqlPinned, list) ==
    LET found == [i \in 1..Len(graphqlPinned) |-> FindByName(list, graphqlPinned[i].name)]
        Flat[i \in 0..Len(found)] == IF i = 0 THEN <<>> ELSE Flat[i - 1] \o found[i]
    IN Flat[Len(found)]

\* stars * 3 + forks * 2 + getTime() / 1000000000
Score(r) == r.stargazers_count * 3 + r.forks_count * 2 + GetTime(r.pushed_at)

\* [...repos].sort(by score).filter(non-fork).slice(0, 6)
ScoresOf(s) == [i \in 1..Len(s) |-> Score(s[i])]
TopRepos(list) == Slice(NonFork(SortDesc(list, ScoresOf(list))), TopReposSize)

(***************************************************************************)
(* State after construction (useState initial values) and the environment. *)
(***************************************************************************)
(***************************************************************************)
(* ProjectDetailsPage (app/[username]/projects/[repo]/page.tsx): what the  *)
(* upstream may answer to its four requests, and its pure parts.           *)
(***************************************************************************)
RepoName == "hello-world"

Outcome(kind, status, body) == [kind |-> kind, status |-> status, body |-> body]

\* GET /repos/{username}/{repo}: the repository object (its name stands for
\* it), or an error status.
RepoAnswers ==
    {Outcome("throw", "", Null), Outcome("malformed", "200", Null)}
    \cup {Outcome("response", st, IF st = "200" THEN RepoName ELSE Null) :
            st \in Statuses}

\* readmeData.content: base64 text broken into lines, possibly empty,
\* possibly not base64 at all, possibly missing from the body.
ReadmeContents == {"IyBUaXRsZQ==", "IyBU\naXRsZQ==\n", "", "%%%", Undefined}

\* GET /repos/{username}/{repo}/readme
ReadmeAnswers ==
    {Outcome("throw", "", Undefined), Outcome("malformed", "200", Undefined),
     Outcome("response", "404", Undefined)}
    \cup {Outcome("response", "200", c) : c \in ReadmeContents}

Contributor(login, contributions) ==
    [login |-> login, contributions |-> contributions]

ContributorLists ==
    {<<>>, <<Contributor("alice", 5), Contributor("bob", 3)>>}

\* GET /repos/{username}/{repo}/contributors?per_page=10
ContributorsAnswers ==
    {Outcome("throw", "", <<>>), Outcome("malformed", "200", <<>>),
     Outcome("response", "403", <<>>)}
    \cup {Outcome("response", "200", l) : l \in ContributorLists}

LanguageKeys == <<"TypeScript", "CSS", "HTML", "Shell", "Go">>
ByteCounts == {1, 2, 3, 30, 70}

\* A language breakdown keeps the order of the keys of the JSON object.
LanguageMaps ==
    UNION {{[i \in 1..n |-> [language |-> LanguageKeys[i], bytes |-> b[i]]] :
              b \in [1..n -> ByteCounts]} : n \in 0..MaxLanguages}

\* GET /repos/{username}/{repo}/languages
LanguagesAnswers ==
    {Outcome("throw", "", <<>>), Outcome("malformed", "200", <<>>),
     Outcome("response", "404", <<>>)}
    \cup {Outcome("response", "200", l) : l \in LanguageMaps}

NotSettled == Outcome("none", "", Null)

NothingGotYet ==
    [repo |-> NotSettled, readme |-> NotSettled, contributors |-> NotSettled,
     languages |-> NotSettled]

\* content.replace(/\s/g, '')
StripWhitespace(content) ==
    IF content = "IyBU\naXRsZQ==\n" THEN "IyBUaXRsZQ==" ELSE content

InvalidCharacterError == "InvalidCharacterError"

\* atob identity stand-in: the text is taken to be its own decoding
AtobIdentity(s) == s

\* atob(s): the bytes the base64 text stands for, or an exception
Atob(s) ==
    CASE s = "IyBUaXRsZQ==" -> "# Title"
      [] s = "" -> ""
      [] OTHER -> InvalidCharacterError

\* The README block between its json() and setReadme: the decoded text, or
\* the exception its try block ends with (content missing, or not base64).
DecodeReadme(content) ==
    IF content = Undefined THEN "TypeError"
    ELSE Atob(StripWhitespace(content))

ReadmeThrows(content) ==
    DecodeReadme(content) \in {"TypeError", InvalidCharacterError}

RECURSIVE SumBytes(_)
\* Object.values(languages).reduce((sum, bytes) => sum + bytes, 0)
SumBytes(languages) ==
    IF languages = <<>> THEN 0
    ELSE languages[1].bytes + SumBytes(Tail(languages))

\* the integer just below num/den
RoundDown(num, den) == num \div den

\* the integer just above num/den
RoundUp(num, den) == (num + den - 1) \div den

\* Math.round(num / den) for num >= 0, den > 0: halves go up
Round(num, den) == (2 * num + den) \div (2 * den)

\* calculateLanguagePercentages()
CalculateLanguagePercentages(languages) ==
    LET total == SumBytes(languages)
    IN [i \in 1..Len(languages) |->
          [language |-> languages[i].language,
           bytes |-> languages[i].bytes,
           percentage |-> Round(languages[i].bytes * 100, total)]]

\* `Repository not found (${repoResponse.status})`
RepositoryNotFound(status) == "Repository not found (" \o status \o ")"

Components == {"ProfilePage", "PinnedRepos", "ProjectDetailsPage", "SimilarProfiles",
               "ActivityGraph", "GitHubAuth", "ProjectsPage",
               "ProfilePageRuns", "ProjectDetailsVisits"}
Username == "octocat"

(***************************************************************************)
(* components/SimilarProfiles.tsx: its props, what the upstream may answer *)
(* to its requests, and the pure parts of findSimilarProfiles.             *)
(***************************************************************************)
LangReposCap == 3       \* langReposData.items.slice(0, 3)
ContributorsCap == 5    \* contributors.slice(0, 5)
SimilarUsersCap == 6    \* similarUsersArray.slice(0, 6)

WithTopics(repo, topics) == [repo EXCEPT !.topics = topics]

\* The repos prop: no repository; one without language or topic; one with
\* topics only; three with two languages (the second the more frequent) and
\* no topic; the same three with topics on the first.
SimilarRepoLists ==
    { <<>>,
      <<CatalogRepo(3)>>,
      <<WithTopics(CatalogRepo(3), <<"web", "cli">>)>>,
      <<CatalogRepo(2), CatalogRepo(1), CatalogRepo(5)>>,
      <<WithTopics(CatalogRepo(2), <<"web">>), CatalogRepo(1), CatalogRepo(5)>> }

\* The user prop: the profile's login and its follower count.
GitHubUser(followers) == [login |-> Username, followers |-> followers]
SimilarUsersOf == {GitHubUser(0), GitHubUser(2)}

\* Lists of logins the upstream may return as contributors, repository
\* owners or followed accounts: they overlap, one holds the profile's own
\* login, and one is longer than the contributors the code looks at.
LoginLists ==
    { <<"u1", "octocat", "u2", "u3", "u4", "u5">>,
      <<"u3", "u6", "u7", "u8">> }

\* Followers the upstream may return for the profile.
FollowerLists == {<<>>, <<"f1">>, <<"f1", "f2">>}

\* The items of the language search: none, one, or more than the code
\* looks at.
LangRepoLists ==
    {<<>>, <<"lr1">>, <<"lr1", "lr2", "lr3", "lr4">>}

\* A settled request: a Response that is ok with the listed items, a
\* Response that is not ok, a body that cannot be used, or a rejected fetch.
Settlement(endpoint, kind, items) ==
    [endpoint |-> endpoint, kind |-> kind, items |-> items]

FailureKinds == {"nonok", "malformed", "throw"}

Answers(endpoint, lists) ==
    {Settlement(endpoint, k, <<>>) : k \in FailureKinds}
    \cup {Settlement(endpoint, "ok", l) : l \in lists}

Failed(a) == a.kind \in FailureKinds

\* upstream failures of the run so far
Failures(settled) == Cardinality({i \in 1..Len(settled) : Failed(settled[i])})

\* userLanguages: new Set of every repo.language that is set
UserLanguages(list) == AddLanguages(list, <<>>)

RECURSIVE AddTopics(_, _)
\* repos.forEach(repo => repo.topics.forEach(topic => userTopics.add(topic)))
AddTopics(topics, acc) ==
    IF topics = <<>> THEN acc
    ELSE AddTopics(Tail(topics),
                   IF Head(topics) \in Range(acc) THEN acc
                   ELSE Append(acc, Head(topics)))

RECURSIVE UserTopicsFrom(_, _)
UserTopicsFrom(list, acc) ==
    IF list = <<>> THEN acc
    ELSE UserTopicsFrom(Tail(list), AddTopics(Head(list).topics, acc))

\* userTopics
UserTopics(list) == UserTopicsFrom(list, <<>>)

\* a guard that never exits early
NeverNoSignal(list) == FALSE

\* userLanguages.size === 0 && userTopics.size === 0
NoSignal(list) == UserLanguages(list) = <<>> /\ UserTopics(list) = <<>>

\* languageCounts[language]
LanguageCount(list, language) ==
    Cardinality({i \in 1..Len(list) : list[i].language = language})

\* Object.entries(languageCounts).sort(([, a], [, b]) => b - a)[0]: the most
\* frequent language, the first inserted among equals, undefined if none
PrimaryLanguage(list) ==
    LET langs == UserLanguages(list)
        counts == [i \in 1..Len(langs) |-> LanguageCount(list, langs[i])]
    IN IF langs = <<>> THEN Undefined ELSE SortDesc(langs, counts)[1]

AlsoWorksWith(language) == "Also works with " \o language
WorksOnSimilarTopics == "Works on similar topics"
FollowedByFollowers == "Followed by people who follow you"

SimilarUser(login, name, reason) ==
    [login |-> login, name |-> name, similarity_reason |-> reason]

HasLogin(set, login) == \E i \in 1..Len(set) : set[i].login = login

\* Map.set whatever the map holds: an entry of the same login is replaced
\* where it stands
SetAlways(set, login, reason) ==
    IF HasLogin(set, login)
      THEN [i \in 1..Len(set) |->
              IF set[i].login = login
                THEN SimilarUser(login, Null, reason) ELSE set[i]]
      ELSE Append(set, SimilarUser(login, Null, reason))

\* if (!similarUsersSet.has(login)) similarUsersSet.set(login, {...})
SetIfAbsent(set, login, reason) ==
    IF HasLogin(set, login) THEN set
    ELSE Append(set, SimilarUser(login, Null, reason))

RECURSIVE AddSimilarUsers(_, _, _)
\* one loop over a list of accounts: the profile's own login is skipped
AddSimilarUsers(set, logins, reason) ==
    IF logins = <<>> THEN set
    ELSE AddSimilarUsers(
           IF Head(logins) = Username THEN set
           ELSE SetIfAbsent(set, Head(logins), reason),
           Tail(logins), reason)

\* every entry of the map
TakeAll(entries) == entries

\* Array.from(similarUsersSet.values()).slice(0, 6)
TakeCandidates(entries) == Slice(entries, SimilarUsersCap)

\* userData.name of GET /users/{login}; an account may have no name
NameOf(login) == IF login = "u2" THEN Null ELSE "Name of " \o login

\* What each profile request of the Promise.all may settle with, with at
\* most `budget` failures among them.
EnrichmentOutcomes(n, budget) ==
    {o \in [1..n -> {"ok", "nonok", "throw"}] :
        Cardinality({i \in 1..n : o[i] # "ok"}) <= budget}

\* a map callback that gives up the candidates whose request failed
EnhanceDropping(users, outcomes) ==
    LET kept == SelectSeq([i \in 1..Len(users) |-> [u |-> users[i], o |-> outcomes[i]]],
                          LAMBDA p : p.o = "ok")
    IN [i \in 1..Len(kept) |->
          SimilarUser(kept[i].u.login, NameOf(kept[i].u.login),
                      kept[i].u.similarity_reason)]

\* the map callback of the Promise.all: { ...simUser, name: userData.name }
\* when the request is ok, simUser otherwise
Enhance(users, outcomes) ==
    [i \in 1..Len(users) |->
        IF outcomes[i] = "ok"
          THEN SimilarUser(users[i].login, NameOf(users[i].login),
                           users[i].similarity_reason)
          ELSE users[i]]

FailedToFind == "Failed to find similar profiles"

NoSettlements == <<>>

(***************************************************************************)
(* components/ActivityGraph: what the upstream may answer, and the pure    *)
(* parts of fetchActivityData.                                             *)
(***************************************************************************)
ScanCap == 3            \* Math.min(nonForkRepos.length, 3)
MonthsCap == 12         \* .slice(-12)

\* GET /users/{username}/repos?sort=pushed&per_page=10 answers most recently
\* pushed first: every selection of the first five catalogue entries (one of
\* them a fork), in that order.
ActivityRepoLists ==
    {SortDesc(s, PushedTimesOf(s)) : s \in SubSeqsUpTo(5)}

ActivityReposAnswers ==
    {Settlement("activityRepos", k, <<>>) : k \in FailureKinds}
    \cup {Settlement("activityRepos", "ok", l) : l \in ActivityRepoLists}

\* data.owner of /stats/participation, one count per week (three weeks
\* stand for the fifty-two); the empty series stands for a body without owner
OwnerSeries == {<<>>, <<0, 0, 0>>, <<0, 1, 0>>, <<1, 0, 3>>}

ParticipationAnswers ==
    {Settlement("participation", k, <<>>) : k \in {"nonok", "throw"}}
    \cup {Settlement("participation", "ok", s) : s \in OwnerSeries}

\* owner series whose most active week counts
BusiestWeekOnly(owner) ==
    \E i \in 1..Len(owner) : owner[i] > 1

\* data && data.owner && data.owner.some(val => val > 0)
HasOwnerActivity(owner) ==
    \E i \in 1..Len(owner) : owner[i] > 0

\* The calendar of new Date(): a day of the year as month and day.
MonthLengths == <<31, 28, 31, 30, 31, 30, 31, 31, 30, 31, 30, 31>>

RECURSIVE MonthDayFrom(_, _)
MonthDayFrom(day, month) ==
    IF day <= MonthLengths[month] THEN month * 100 + day
    ELSE MonthDayFrom(day - MonthLengths[month], month + 1)

\* `${date.getMonth() + 1}/${date.getDate()}`, written as the number MDD
MonthDay(day) == MonthDayFrom(day, 1)

\* new Date(): the day of the year the page is viewed
Today == Clock - 10

WeekItem(owner, index) ==
    [name |-> index, commits |-> owner[index],
     date |-> MonthDay(Today - (Len(owner) - index) * 7)]

\* commitData.data.map(...).filter(item => item.commits > 0)
FormatParticipation(owner) ==
    SelectSeq([i \in 1..Len(owner) |-> WeekItem(owner, i)],
              LAMBDA item : item.commits > 0)

\* `${getFullYear()}-${padStart(getMonth() + 1)}` of new Date(pushed_at):
\* two units of the model's time make a month; the key is counted in months
DateKey(pushed_at) == GetTime(pushed_at) \div 2

\* Object.keys(activityMap).sort(): the months that have a push, ascending
SortedKeys(list) ==
    LET keys == {DateKey(list[i].pushed_at) : i \in 1..Len(list)}
    IN [k \in 1..Cardinality(keys) |->
          CHOOSE x \in keys : Cardinality({y \in keys : y < x}) = k - 1]

\* activityMap[dateKey]
PushesIn(list, key) ==
    Cardinality({i \in 1..Len(list) : DateKey(list[i].pushed_at) = key})

\* arr.slice(-n)
SliceLast(s, n) == SubSeq(s, IF Len(s) > n THEN Len(s) - n + 1 ELSE 1, Len(s))

\* the monthly bucketing of every repository's pushed_at: name is
\* `${month}/${year.slice(2)}` written as the number MYY, date the key itself
FormatPushDates(list) ==
    LET keys == SortedKeys(list)
    IN SliceLast([k \in 1..Len(keys) |->
                    [name |-> ((keys[k] % 12) + 1) * 100
                               + ((24 + (keys[k] \div 12)) % 100),
                     commits |-> PushesIn(list, keys[k]),
                     date |-> keys[k]]],
                 MonthsCap)

FailedToLoadActivity == "Failed to load activity data"

\* an answer that is thrown away also when its list is empty
ReposUnusableOrEmpty(a) == a.kind \in FailureKinds \/ a.items = <<>>

\* !reposResponse.ok, a rejected fetch, or a body that is not JSON
ReposUnusable(a) == a.kind \in FailureKinds

(***************************************************************************)
(* GitHubAuth (components/BottomNavigation.tsx) and the rate-limit route   *)
(* (app/api/github/rate-limit/route.ts) it asks.                           *)
(***************************************************************************)
\* what the user may type into the token field
InputTokens == {"", " ", "typed-token", "other-token"}

\* token.trim()
Trim(s) == IF s = " " THEN "" ELSE s

VerificationKinds == {"ok", "nonok", "throw"}

\* a verification that counts whatever the upstream answered
VerifiedAlways(kind) == kind \in VerificationKinds

\* response.ok of the awaited fetch of https://api.github.com/user
Verified(kind) == kind = "ok"

NotVerifiedYet ==
    [token |-> Null, kind |-> "none", stored |-> Null, authenticated |-> FALSE]

\* useState(null) of rateLimit, and the object setRateLimit stores
NoRateLimit == [known |-> FALSE, limit |-> 0, tokenSource |-> Null]
RateLimit(limit, tokenSource) ==
    [known |-> TRUE, limit |-> limit, tokenSource |-> tokenSource]

\* githubToken.getGitHubToken() on the server (typeof window undefined)
ServerGetGitHubToken == OrElse(serverEnvToken, Null)

\* githubToken.createGitHubHeaders() on the server
ServerCreateGitHubHeaders ==
    LET token == ServerGetGitHubToken
    IN IF ~Falsy(token) THEN Auth("token", token) ELSE NoAuth

\* the limit GitHub grants without and with a credential
UnauthenticatedLimit == 60
AuthenticatedLimit == 5000

\* what https://api.github.com/rate_limit may answer to these headers
RateLimitAnswers(headers) ==
    {[kind |-> "throw", limit |-> 0], [kind |-> "nonok", limit |-> 0],
     [kind |-> "ok",
      limit |-> IF headers = NoAuth THEN UnauthenticatedLimit
                ELSE AuthenticatedLimit]}

\* the checkRateLimit argument as the route reads it back:
\* searchParams.get('token') of the url checkRateLimit builds
ClientTokenOf(authToken) == IF Falsy(authToken) THEN Null ELSE authToken

\* route.ts: tokenSource
TokenSource(limit, clientToken) ==
    LET hasEnvToken == ~Falsy(serverEnvToken)
        hasPublicEnvToken == ~Falsy(envToken)
    IN IF limit > UnauthenticatedLimit
       THEN IF hasEnvToken /\ (Falsy(clientToken) \/ ~hasPublicEnvToken)
            THEN "environment"
            ELSE IF ~Falsy(clientToken) THEN "client"
            ELSE IF hasPublicEnvToken THEN "environment"
            ELSE Null
       ELSE Null

NoRouteAnswer ==
    [status |-> 0, clientToken |-> Null, attached |-> NoAuth, limit |-> 0,
     tokenSource |-> Null]

\* route.ts GET: the JSON answer (200) or the catch's status 500
RouteAnswer(clientToken, a) ==
    IF a.kind = "ok"
    THEN [status |-> 200, clientToken |-> clientToken,
          attached |-> ServerCreateGitHubHeaders, limit |-> a.limit,
          tokenSource |-> TokenSource(a.limit, clientToken)]
    ELSE [status |-> 500, clientToken |-> clientToken,
          attached |-> ServerCreateGitHubHeaders, limit |-> 0,
          tokenSource |-> Null]

(***************************************************************************)
(* app/[username]/projects/page.tsx: the repositories the upstream may     *)
(* list and the filter/sort effect.                                        *)
(***************************************************************************)
ProjectRepo(name, description, fork, stars, updated) ==
    [name |-> name, description |-> description, fork |-> fork,
     stargazers_count |-> stars, updated_at |-> updated]

\* names differ in case, one description is null, stars and update times tie
ProjectCatalog ==
    <<ProjectRepo("api", Null, FALSE, 2, 5),
      ProjectRepo("Blog", "API notes", TRUE, 2, 7),
      ProjectRepo("cli", "A Tool", FALSE, 0, 5)>>

ProjectRepoLists ==
    {<<>>, <<ProjectCatalog[2]>>, ProjectCatalog, Reverse(ProjectCatalog),
     <<ProjectCatalog[3], ProjectCatalog[1]>>}

ProjectsAnswers == Answers("projectRepos", ProjectRepoLists)

Filters == {"all", "forked", "source"}
SortKeys == {"stars", "updated", "name"}
SearchQueries == {"", "AP", "tool"}

\* String.prototype.toLowerCase on the strings that occur
ToLowerCase(s) ==
    CASE s = "AP" -> "ap"
      [] s = "Blog" -> "blog"
      [] s = "API notes" -> "api notes"
      [] s = "A Tool" -> "a tool"
      [] OTHER -> s

\* String.prototype.includes on the strings that occur
Includes(text, part) ==
    \/ part = ""
    \/ <<text, part>> \in {<<"api", "ap">>, <<"api notes", "ap">>,
                           <<"a tool", "tool">>, <<"A Tool", "Tool">>,
                           <<"API notes", "AP">>}

\* a filter step that lets every repository through
KeepAll(list, filter) == list

\* result.filter((repo) => repo.fork) / (repo) => !repo.fork, or no filter
ApplyFilter(list, filter) ==
    IF filter = "forked" THEN SelectSeq(list, LAMBDA r : r.fork)
    ELSE IF filter = "source" THEN SelectSeq(list, LAMBDA r : ~r.fork)
    ELSE list

\* the search step: name or description contains the lower-cased query
ApplySearch(list, searchQuery) ==
    IF searchQuery # ""
    THEN LET query == ToLowerCase(searchQuery)
         IN SelectSeq(list, LAMBDA r :
                \/ Includes(ToLowerCase(r.name), query)
                \/ (~Falsy(r.description)
                    /\ Includes(ToLowerCase(r.description), query)))
    ELSE list

\* position of a name under localeCompare: letters before case
LocaleRank(name) ==
    CASE name = "api" -> 1 [] name = "Blog" -> 2 [] name = "cli" -> 3

\* the comparator keys of result.sort: descending stars, descending update
\* time, ascending localeCompare of the name
SortKeysOf(list, sortBy) ==
    [i \in 1..Len(list) |->
        IF sortBy = "stars" THEN list[i].stargazers_count
        ELSE IF sortBy = "updated" THEN GetTime(list[i].updated_at)
        ELSE 0 - LocaleRank(list[i].name)]

ApplySort(list, sortBy) == SortDesc(list, SortKeysOf(list, sortBy))

\* the filter/sort effect: what setFilteredRepos receives
FilterAndSort(list, filter, sortBy, searchQuery) ==
    ApplySort(ApplySearch(ApplyFilter(list, filter), searchQuery), sortBy)

\* `Error: ${error.message}` of the catch
ProjectsError(a) ==
    IF a.kind = "nonok" THEN ErrorText("Failed to fetch repositories: 500")
    ELSE IF a.kind = "throw" THEN ErrorText("Failed to fetch")
    ELSE ErrorText("Unexpected token in JSON")

(***************************************************************************)
(* app/[username]/page.tsx with its token effect: the runs of               *)
(* fetchGitHubProfile that one page view starts, and what the upstream may  *)
(* answer to each of them.                                                  *)
(***************************************************************************)
\* the run of the first render and the run after setToken(storedToken)
Runs == {1, 2}

RunUserAnswers == {Thrown, Answer("404", JsObject), Answer("200", JsObject)}

RunRepoLists ==
    {<<>>, <<CatalogRepo(1)>>, <<CatalogRepo(2), CatalogRepo(1)>>}

RunReposAnswers == {Thrown} \cup {Answer("200", JsArray(l)) : l \in RunRepoLists}

RunGraphqlAnswers ==
    {Thrown, Answer("200", JsObject), Answer("200", JsArray(<<PinnedItem("r1")>>))}

(***************************************************************************)
(* app/[username]/projects/[repo]/page.tsx when its repo parameter changes: *)
(* the repositories visited and what the upstream may answer for them.      *)
(***************************************************************************)
MaxVisits == 2    \* runs of fetchRepoData one page instance makes

VisitRepos == {RepoName, "other-repo"}

VisitRepoAnswers(name) ==
    {Outcome("throw", "", Null), Outcome("response", "404", Null),
     Outcome("response", "200", name)}

VisitReadmeAnswers ==
    {Outcome("throw", "", Undefined), Outcome("response", "404", Undefined),
     Outcome("response", "200", "IyBUaXRsZQ==")}

VisitContributorsAnswers ==
    {Outcome("response", "403", <<>>),
     Outcome("response", "200", <<Contributor("alice", 5)>>)}

VisitLanguagesAnswers ==
    {Outcome("throw", "", <<>>),
     Outcome("response", "200", <<[language |-> "Go", bytes |-> 3]>>)}

Sections == {"readme", "contributors", "languages"}

NothingStored == [s \in Sections |-> ""]
NothingFetched == [s \in Sections |-> "none"]

\* whether a section's request gave a value to store
Fetched(a) == IF a.kind = "response" /\ Ok(a.status) THEN "ok" ELSE "failed"

NothingGot == [user |-> NoAnswer, repos |-> NoAnswer, graphql |-> NoAnswer]

Init ==
    /\ component \in Components
    \* the variable the mounted component never reads stays unset
    /\ envToken \in (IF component \in {"ProfilePage", "GitHubAuth"}
                     THEN {Undefined, "env-token"} ELSE {Undefined})
    /\ serverEnvToken \in (IF component \in {"PinnedRepos", "GitHubAuth"}
                           THEN {Undefined, "server-token"} ELSE {Undefined})
    /\ localToken \in {Null, "local-token"}
    /\ pc = "mount"
    /\ loading = TRUE
    /\ error = NoError
    /\ userData = Null
    /\ repos = JsArray(<<>>)
    /\ pinnedRepos = <<>>
    /\ skills = <<>>
    /\ reposData = JsArray(<<>>)
    /\ calls = <<>>
    /\ got = NothingGot
    /\ prPc = "mount"
    /\ prRepos \in (IF component = "PinnedRepos" THEN RepoLists ELSE {<<>>})
    /\ prLoading = TRUE
    /\ prError = NoError
    /\ prPinnedRepos = <<>>
    /\ pdPc = "mount"
    /\ pdRepoData = Null
    /\ pdReadme = EmptyStr
    /\ pdContributors = <<>>
    /\ pdLanguages = <<>>
    /\ pdLoading = TRUE
    /\ pdError = NoError
    /\ pdGot = NothingGotYet
    /\ spPc = "mount"
    /\ spUser \in (IF component = "SimilarProfiles"
                    THEN SimilarUsersOf ELSE {GitHubUser(0)})
    /\ spRepos \in (IF component = "SimilarProfiles"
                     THEN SimilarRepoLists ELSE {<<>>})
    /\ spSimilarUsers = <<>>
    /\ spLoading = TRUE
    /\ spError = NoError
    /\ spSet = <<>>
    /\ spItemsLeft = 0
    /\ spFollowersLeft = 0
    /\ spGot = NoSettlements
    /\ agPc = "mount"
    /\ agActivityData = <<>>
    /\ agLoading = TRUE
    /\ agError = NoError
    /\ agRepos = <<>>
    /\ agScanned = <<>>
    /\ agGot = NoSettlements
    /\ gaPc = "mount"
    /\ gaToken = EmptyStr
    /\ gaIsAuthenticated = FALSE
    /\ gaLoading = FALSE
    /\ gaRateLimit = NoRateLimit
    /\ gaVerifying = Null
    /\ gaChecks = {}
    /\ gaOnTokenChange = Undefined
    /\ gaGot = NotVerifiedYet
    /\ gaRouteGot = NoRouteAnswer
    /\ ppPc = "mount"
    /\ ppRepos = <<>>
    /\ ppFilteredRepos = <<>>
    /\ ppLoading = TRUE
    /\ ppError = NoError
    /\ ppFilter = "all"
    /\ ppSortBy = "stars"
    /\ ppSearchQuery = ""
    /\ ppInFlight = 0
    /\ ppGot = Settlement("projectRepos", "none", <<>>)
    /\ ruPc = [r \in Runs |-> "idle"]
    /\ ruReposData = [r \in Runs |-> JsArray(<<>>)]
    /\ ruStarted = <<>>
    /\ ruResult = [r \in Runs |-> "none"]
    /\ ruTokenChanged = FALSE
    /\ nvPc = "mount"
    /\ nvRepoName = RepoName
    /\ nvVisits = 0
    /\ nvStoredBy = NothingStored
    /\ nvGot = NothingFetched

(***************************************************************************)
(* ProfilePage.fetchGitHubProfile                                          *)
(***************************************************************************)
\* The outer catch and finally: setError, setUserData(null), setRepos([]),
\* setPinnedRepos([]), setLoading(false).
Fail(message) ==
    /\ error' = ErrorText(message)
    /\ userData' = Null
    /\ repos' = JsArray(<<>>)
    /\ pinnedRepos' = <<>>
    /\ loading' = FALSE
    /\ pc' = "done"

\* The effect starts the run (the route always gives a username, so the
\* early return is not taken): setLoading(true), setError(''), headers, and
\* the profile request is issued.
FetchProfileStart ==
    /\ component = "ProfilePage"
    /\ pc = "mount"
    /\ loading' = TRUE
    /\ error' = NoError
    /\ calls' = Append(calls, Call("users", CreateGitHubHeaders))
    /\ pc' = "awaitUser"
    /\ UNCHANGED <<userData, repos, pinnedRepos, skills, reposData, got>>
    /\ UNCHANGED <<envVars, nvVars, ruVars, ppVars, gaVars, prVars, pdVars, spVars, agVars>>

\* The profile request settles; on success setUserData and the repository
\* request is issued with the same headers.
UserResponse ==
    /\ component = "ProfilePage"
    /\ pc = "awaitUser"
    /\ \E a \in UserAnswers :
        /\ got' = [got EXCEPT !.user = a]
        /\ IF a.kind = "throw"
             THEN Fail("Failed to fetch") /\ UNCHANGED <<calls>>
           ELSE IF ~Ok(a.status)
             THEN Fail(UserNotFound(a.status)) /\ UNCHANGED <<calls>>
           ELSE IF a.kind = "malformed"
             THEN Fail("Unexpected token in JSON") /\ UNCHANGED <<calls>>
           ELSE /\ userData' = Username
                /\ calls' = Append(calls, Call("repos", calls[1].auth))
                /\ pc' = "awaitRepos"
                /\ UNCHANGED <<loading, error, repos, pinnedRepos>>
    /\ UNCHANGED <<skills, reposData>>
    /\ UNCHANGED <<envVars, nvVars, ruVars, ppVars, gaVars, prVars, pdVars, spVars, agVars>>

\* a body reader that turns anything but a list into the empty list
ReposJsonOrEmpty(a) == IF a.body.kind = "array" THEN a.body ELSE JsArray(<<>>)

\* await reposResponse.json(): the parsed body, whatever the status
ReposJson(a) == a.body

\* The repository request settles (its status is not looked at); setRepos
\* and the pinned-items GraphQL request is issued.
ReposResponse ==
    /\ component = "ProfilePage"
    /\ pc = "awaitRepos"
    /\ \E a \in ReposAnswers :
        /\ got' = [got EXCEPT !.repos = a]
        /\ IF a.kind = "throw"
             THEN Fail("Failed to fetch") /\ UNCHANGED <<calls, reposData>>
           ELSE IF a.kind = "malformed"
             THEN Fail("Unexpected token in JSON") /\ UNCHANGED <<calls, reposData>>
           ELSE /\ reposData' = ReposJson(a)
                /\ repos' = ReposJson(a)
                /\ calls' = Append(calls, Call("graphql", Auth("Bearer", GraphqlToken)))
                /\ pc' = "awaitGraphql"
                /\ UNCHANGED <<loading, error, userData, pinnedRepos>>
    /\ UNCHANGED <<skills>>
    /\ UNCHANGED <<envVars, nvVars, ruVars, ppVars, gaVars, prVars, pdVars, spVars, agVars>>

\* The GraphQL request settles: the inner try/catch, the skills, the outer
\* catch and the finally.
GraphqlResponse ==
    /\ component = "ProfilePage"
    /\ pc = "awaitGraphql"
    /\ \E a \in GraphqlAnswers(calls[Len(calls)].auth) :
        LET isArray == reposData.kind = "array"
            list == reposData.items
            pinnedItems == IF a.kind = "response" /\ a.body.kind = "array"
                           THEN a.body.items ELSE <<>>
            \* fetch or res.json() rejects, or reposData.find is not a function
            innerThrows == \/ a.kind \in {"throw", "malformed"}
                           \/ (pinnedItems # <<>> /\ ~isArray)
        IN /\ got' = [got EXCEPT !.graphql = a]
           /\ IF innerThrows /\ ~isArray
                THEN Fail("reposData is not iterable") /\ UNCHANGED <<skills>>
              ELSE IF ~isArray
                THEN Fail("reposData.forEach is not a function") /\ UNCHANGED <<skills>>
              ELSE /\ pinnedRepos' = IF innerThrows
                                     THEN FallbackRepos(list)
                                     ELSE FormattedPinnedRepos(pinnedItems, list, Clock)
                   /\ skills' = ExtractSkills(list)
                   /\ loading' = FALSE
                   /\ pc' = "done"
                   /\ UNCHANGED <<error, userData, repos>>
    /\ UNCHANGED <<reposData, calls>>
    /\ UNCHANGED <<envVars, nvVars, ruVars, ppVars, gaVars, prVars, pdVars, spVars, agVars>>

(***************************************************************************)
(* ProfilePage render                                                      *)
(***************************************************************************)
\* Which branch of the component's return is rendered.
View ==
    IF loading THEN "Loading"
    ELSE IF error # NoError \/ userData = Null THEN "ProfileNotFound"
    ELSE IF Len(repos.items) = 0 THEN "NoRepositories"
    ELSE IF Len(pinnedRepos) = 0 THEN "MostActive"
    ELSE "Pinned"

\* The repos prop handed to FeaturedProjects.
Featured ==
    IF Len(pinnedRepos) = 0 THEN MostActive(repos.items) ELSE pinnedRepos

(***************************************************************************)
(* PinnedRepos.fetchPinnedRepos                                            *)
(***************************************************************************)
\* process.env.GITHUB_ACCESS_TOKEN || token (the token prop is the stored one)
ActiveToken == OrElse(serverEnvToken, localToken)

\* The effect: nothing when repos is empty; otherwise setLoading(true),
\* setError(''), and the GraphQL request if a token is active, else the
\* heuristic at once.
PinnedReposStart ==
    /\ component = "PinnedRepos"
    /\ prPc = "mount"
    /\ IF ~(~Falsy(Username) /\ Len(prRepos) > 0)
         THEN /\ prPc' = "skipped"
              /\ UNCHANGED <<prLoading, prError, prPinnedRepos, calls>>
       ELSE IF ~Falsy(ActiveToken)
         THEN /\ prPc' = "awaitGraphql"
              /\ prLoading' = TRUE
              /\ prError' = NoError
              /\ calls' = Append(calls, Call("graphql", Auth("bearer", ActiveToken)))
              /\ UNCHANGED <<prPinnedRepos>>
       ELSE /\ prPc' = "done"
            /\ prError' = NoError
            /\ prPinnedRepos' = TopRepos(prRepos)
            /\ prLoading' = FALSE
            /\ UNCHANGED <<calls>>
    /\ UNCHANGED <<prRepos, got>>
    /\ UNCHANGED <<envVars, nvVars, ruVars, ppVars, gaVars, pageVars, pdVars, spVars, agVars>>

\* The GraphQL request settles: the pinned repositories found in repos, or
\* the heuristic when none is found or the request threw.
PinnedReposGraphqlResponse ==
    /\ component = "PinnedRepos"
    /\ prPc = "awaitGraphql"
    /\ \E a \in GraphqlAnswers(calls[Len(calls)].auth) :
        LET hasNodes == a.kind = "response" /\ a.body.kind = "array"
            pinnedWithFullData == IF hasNodes
                                  THEN PinnedWithFullData(a.body.items, prRepos)
                                  ELSE <<>>
        IN /\ got' = [got EXCEPT !.graphql = a]
           /\ prPinnedRepos' = IF Len(pinnedWithFullData) > 0
                               THEN pinnedWithFullData
                               ELSE TopRepos(prRepos)
    /\ prLoading' = FALSE
    /\ prPc' = "done"
    /\ UNCHANGED <<prRepos, prError, calls>>
    /\ UNCHANGED <<envVars, nvVars, ruVars, ppVars, gaVars, pageVars, pdVars, spVars, agVars>>

(***************************************************************************)
(* ProjectDetailsPage.fetchRepoData                                        *)
(***************************************************************************)
\* outer catch and finally of fetchRepoData
FailRepo(message) ==
    /\ pdError' = ErrorText(message)
    /\ pdRepoData' = Null
    /\ pdLoading' = FALSE
    /\ pdPc' = "done"

\* all three optional requests issued at once
IssuedTogether(auth) ==
    <<Call("readme", auth), Call("contributors", auth), Call("languages", auth)>>

\* the requests issued as soon as the repository object is stored
IssuedAfterRepoData(auth) == <<Call("readme", auth)>>

\* The effect starts the run (the route always gives username and repo):
\* setLoading(true), setError(''), createGitHubHeaders and the repository
\* request.
FetchRepoDataStart ==
    /\ component = "ProjectDetailsPage"
    /\ pdPc = "mount"
    /\ pdLoading' = TRUE
    /\ pdError' = NoError
    /\ calls' = Append(calls, Call("repo", CreateGitHubHeaders))
    /\ pdPc' = "awaitRepo"
    /\ UNCHANGED <<pdRepoData, pdReadme, pdContributors, pdLanguages, pdGot>>
    /\ UNCHANGED <<envVars, nvVars, ruVars, ppVars, gaVars, pageVars, prVars, spVars, agVars, got>>

\* The repository request settles: anything but a 2xx answer with a JSON
\* body is thrown to the outer catch; otherwise setRepoData and the README
\* request.
RepoResponse ==
    /\ component = "ProjectDetailsPage"
    /\ pdPc = "awaitRepo"
    /\ \E a \in RepoAnswers :
        /\ pdGot' = [pdGot EXCEPT !.repo = a]
        /\ IF a.kind = "throw"
             THEN FailRepo("Failed to fetch") /\ UNCHANGED <<calls>>
           ELSE IF ~Ok(a.status)
             THEN FailRepo(RepositoryNotFound(a.status)) /\ UNCHANGED <<calls>>
           ELSE IF a.kind = "malformed"
             THEN FailRepo("Unexpected token in JSON") /\ UNCHANGED <<calls>>
           ELSE /\ pdRepoData' = a.body
                /\ calls' = calls \o IssuedAfterRepoData(calls[1].auth)
                /\ pdPc' = "awaitReadme"
                /\ UNCHANGED <<pdError, pdLoading>>
    /\ UNCHANGED <<pdReadme, pdContributors, pdLanguages>>
    /\ UNCHANGED <<envVars, nvVars, ruVars, ppVars, gaVars, pageVars, prVars, spVars, agVars, got>>

\* The README request settles inside its own try block: a 2xx answer is
\* decoded and stored, anything else (and any exception of the decoding) is
\* logged; then the contributors request.
ReadmeResponse ==
    /\ component = "ProjectDetailsPage"
    /\ pdPc = "awaitReadme"
    /\ \E a \in ReadmeAnswers :
        /\ pdGot' = [pdGot EXCEPT !.readme = a]
        /\ pdReadme' = IF /\ a.kind = "response"
                          /\ Ok(a.status)
                          /\ ~ReadmeThrows(a.body)
                         THEN DecodeReadme(a.body) ELSE pdReadme
    /\ calls' = Append(calls, Call("contributors", calls[1].auth))
    /\ pdPc' = "awaitContributors"
    /\ UNCHANGED <<pdRepoData, pdContributors, pdLanguages, pdLoading, pdError>>
    /\ UNCHANGED <<envVars, nvVars, ruVars, ppVars, gaVars, pageVars, prVars, spVars, agVars, got>>

\* The contributors request settles inside its own try block; then the
\* languages request.
ContributorsResponse ==
    /\ component = "ProjectDetailsPage"
    /\ pdPc = "awaitContributors"
    /\ \E a \in ContributorsAnswers :
        /\ pdGot' = [pdGot EXCEPT !.contributors = a]
        /\ pdContributors' = IF a.kind = "response" /\ Ok(a.status)
                               THEN a.body ELSE pdContributors
    /\ calls' = Append(calls, Call("languages", calls[1].auth))
    /\ pdPc' = "awaitLanguages"
    /\ UNCHANGED <<pdRepoData, pdReadme, pdLanguages, pdLoading, pdError>>
    /\ UNCHANGED <<envVars, nvVars, ruVars, ppVars, gaVars, pageVars, prVars, spVars, agVars, got>>

\* The languages request settles inside its own try block; finally
\* setLoading(false).
LanguagesResponse ==
    /\ component = "ProjectDetailsPage"
    /\ pdPc = "awaitLanguages"
    /\ \E a \in LanguagesAnswers :
        /\ pdGot' = [pdGot EXCEPT !.languages = a]
        /\ pdLanguages' = IF a.kind = "response" /\ Ok(a.status)
                            THEN a.body ELSE pdLanguages
    /\ pdLoading' = FALSE
    /\ pdPc' = "done"
    /\ UNCHANGED <<pdRepoData, pdReadme, pdContributors, pdError, calls>>
    /\ UNCHANGED <<envVars, nvVars, ruVars, ppVars, gaVars, pageVars, prVars, spVars, agVars, got>>

(***************************************************************************)
(* SimilarProfiles.findSimilarProfiles                                     *)
(***************************************************************************)
Similar == component = "SimilarProfiles"

MayAnswer(a) == Failed(a) => Failures(spGot) < MaxFailures

\* outer catch and finally of findSimilarProfiles
FailSimilar ==
    /\ spError' = FailedToFind
    /\ spLoading' = FALSE
    /\ spPc' = "done"
    /\ UNCHANGED <<spSimilarUsers, calls>>

\* One request more, and the await of its response.
Await(endpoint, position) ==
    /\ calls' = Append(calls, Call(endpoint, CreateGitHubHeaders))
    /\ spPc' = position
    /\ UNCHANGED <<spSimilarUsers, spLoading, spError>>

\* After the three methods: the first six entries of the map and one
\* profile request for each of them, all issued before any is awaited; with
\* no entry, Promise.all([]) resolves and the empty result is stored.
Enrich(set) ==
    IF set = <<>>
      THEN /\ spSimilarUsers' = <<>>
           /\ spLoading' = FALSE
           /\ spPc' = "done"
           /\ UNCHANGED <<spError, calls>>
      ELSE /\ calls' = calls \o [i \in 1..Len(TakeCandidates(set)) |->
                                   Call("profile", CreateGitHubHeaders)]
           /\ spPc' = "awaitProfiles"
           /\ UNCHANGED <<spSimilarUsers, spLoading, spError>>

\* Method 3, or what follows it: if (user.followers > 0)
Method3(set) ==
    IF spUser.followers > 0 THEN Await("followers", "awaitFollowers")
    ELSE Enrich(set)

\* Method 2, or what follows it: if (userTopics.size > 0)
Method2(set) ==
    IF UserTopics(spRepos) # <<>> THEN Await("topicSearch", "awaitTopicSearch")
    ELSE Method3(set)

\* Method 1, or what follows it: if (primaryLanguage)
Method1(set) ==
    IF ~Falsy(PrimaryLanguage(spRepos))
      THEN Await("languageSearch", "awaitLanguageSearch")
    ELSE Method2(set)

\* The effect runs on mount: without repositories it does nothing; without
\* any language or topic findSimilarProfiles stores the empty result and
\* returns; otherwise the first applicable method issues its request.
FindSimilarProfilesStart ==
    /\ Similar
    /\ spPc = "mount"
    /\ IF ~(Len(spRepos) > 0)
         THEN /\ spPc' = "idle"
              /\ UNCHANGED <<spSimilarUsers, spLoading, spError, calls>>
       ELSE IF NoSignal(spRepos)
         THEN /\ spSimilarUsers' = <<>>
              /\ spLoading' = FALSE
              /\ spError' = NoError
              /\ spPc' = "done"
              /\ UNCHANGED <<calls>>
       ELSE Method1(<<>>)
    /\ UNCHANGED <<spUser, spRepos, spSet, spItemsLeft, spFollowersLeft, spGot>>
    /\ UNCHANGED <<envVars, nvVars, ruVars, ppVars, gaVars, pageVars, prVars, pdVars, agVars, got>>

\* The language search settles.  It is not inside an inner try: a rejected
\* fetch or an unusable body goes to the outer catch.  A Response that is
\* not ok skips the method; otherwise the contributors of the first of up
\* to three items are requested.
LanguageSearchResponse ==
    /\ Similar
    /\ spPc = "awaitLanguageSearch"
    /\ \E a \in Answers("languageSearch", LangRepoLists) :
        /\ MayAnswer(a)
        /\ spGot' = Append(spGot, a)
        /\ IF a.kind \in {"throw", "malformed"}
             THEN FailSimilar /\ UNCHANGED <<spItemsLeft>>
           ELSE IF a.kind = "nonok" \/ a.items = <<>>
             THEN Method2(spSet) /\ UNCHANGED <<spItemsLeft>>
           ELSE /\ Await("repoContributors", "awaitContributors")
                /\ spItemsLeft' = Len(Slice(a.items, LangReposCap)) - 1
    /\ UNCHANGED <<spUser, spRepos, spSet, spFollowersLeft>>
    /\ UNCHANGED <<envVars, nvVars, ruVars, ppVars, gaVars, pageVars, prVars, pdVars, agVars, got>>

\* A contributors request settles inside its own try block: the first five
\* contributors of an ok Response are added; then the next item, or
\* Method 2.
RepoContributorsResponse ==
    /\ Similar
    /\ spPc = "awaitContributors"
    /\ \E a \in Answers("repoContributors", LoginLists) :
        /\ MayAnswer(a)
        /\ spGot' = Append(spGot, a)
        /\ spSet' = IF Failed(a) THEN spSet
                    ELSE AddSimilarUsers(spSet, Slice(a.items, ContributorsCap),
                                         AlsoWorksWith(PrimaryLanguage(spRepos)))
        /\ IF spItemsLeft > 0
             THEN /\ Await("repoContributors", "awaitContributors")
                  /\ spItemsLeft' = spItemsLeft - 1
           ELSE Method2(spSet') /\ UNCHANGED <<spItemsLeft>>
    /\ UNCHANGED <<spUser, spRepos, spFollowersLeft>>
    /\ UNCHANGED <<envVars, nvVars, ruVars, ppVars, gaVars, pageVars, prVars, pdVars, agVars, got>>

\* The topic search settles, outside any inner try: the owners of the items
\* of an ok Response are added; then Method 3.
TopicSearchResponse ==
    /\ Similar
    /\ spPc = "awaitTopicSearch"
    /\ \E a \in Answers("topicSearch", LoginLists) :
        /\ MayAnswer(a)
        /\ spGot' = Append(spGot, a)
        /\ IF a.kind \in {"throw", "malformed"}
             THEN FailSimilar /\ UNCHANGED <<spSet>>
           ELSE /\ spSet' = IF Failed(a) THEN spSet
                            ELSE AddSimilarUsers(spSet, a.items, WorksOnSimilarTopics)
                /\ Method3(spSet')
    /\ UNCHANGED <<spUser, spRepos, spItemsLeft, spFollowersLeft>>
    /\ UNCHANGED <<envVars, nvVars, ruVars, ppVars, gaVars, pageVars, prVars, pdVars, agVars, got>>

\* The followers request settles, outside any inner try: for an ok Response
\* the accounts the first follower follows are requested.
FollowersResponse ==
    /\ Similar
    /\ spPc = "awaitFollowers"
    /\ \E a \in Answers("followers", FollowerLists) :
        /\ MayAnswer(a)
        /\ spGot' = Append(spGot, a)
        /\ IF a.kind \in {"throw", "malformed"}
             THEN FailSimilar /\ UNCHANGED <<spFollowersLeft>>
           ELSE IF a.kind = "nonok" \/ a.items = <<>>
             THEN Enrich(spSet) /\ UNCHANGED <<spFollowersLeft>>
           ELSE /\ Await("following", "awaitFollowing")
                /\ spFollowersLeft' = Len(a.items) - 1
    /\ UNCHANGED <<spUser, spRepos, spSet, spItemsLeft>>
    /\ UNCHANGED <<envVars, nvVars, ruVars, ppVars, gaVars, pageVars, prVars, pdVars, agVars, got>>

\* A following request settles inside its own try block: the accounts of an
\* ok Response are added; then the next follower, or the enrichment.
FollowingResponse ==
    /\ Similar
    /\ spPc = "awaitFollowing"
    /\ \E a \in Answers("following", LoginLists) :
        /\ MayAnswer(a)
        /\ spGot' = Append(spGot, a)
        /\ spSet' = IF Failed(a) THEN spSet
                    ELSE AddSimilarUsers(spSet, a.items, FollowedByFollowers)
        /\ IF spFollowersLeft > 0
             THEN /\ Await("following", "awaitFollowing")
                  /\ spFollowersLeft' = spFollowersLeft - 1
           ELSE Enrich(spSet') /\ UNCHANGED <<spFollowersLeft>>
    /\ UNCHANGED <<spUser, spRepos, spItemsLeft>>
    /\ UNCHANGED <<envVars, nvVars, ruVars, ppVars, gaVars, pageVars, prVars, pdVars, agVars, got>>

\* Every profile request of the Promise.all has settled, each inside its
\* own try block: setSimilarUsers(enhancedUsers); finally setLoading(false).
ProfilesResponse ==
    /\ Similar
    /\ spPc = "awaitProfiles"
    /\ LET users == TakeCandidates(spSet)
       IN \E o \in EnrichmentOutcomes(Len(users), MaxFailures - Failures(spGot)) :
            /\ spGot' = spGot \o [i \in 1..Len(users) |->
                                    Settlement("profile", o[i], <<users[i].login>>)]
            /\ spSimilarUsers' = Enhance(users, o)
    /\ spLoading' = FALSE
    /\ spPc' = "done"
    /\ UNCHANGED <<spUser, spRepos, spSet, spItemsLeft, spFollowersLeft, spError, calls>>
    /\ UNCHANGED <<envVars, nvVars, ruVars, ppVars, gaVars, pageVars, prVars, pdVars, agVars, got>>

(***************************************************************************)
(* ActivityGraph.fetchActivityData                                         *)
(***************************************************************************)
Activity == component = "ActivityGraph"

\* outer catch and finally of fetchActivityData
FailActivity ==
    /\ agError' = FailedToLoadActivity
    /\ agLoading' = FALSE
    /\ agPc' = "done"
    /\ UNCHANGED <<agActivityData, calls, agScanned, agRepos>>

\* setActivityData(data) on the way out; finally setLoading(false)
StoreActivity(data) ==
    /\ agActivityData' = data
    /\ agLoading' = FALSE
    /\ agPc' = "done"
    /\ UNCHANGED <<agError, calls, agScanned>>

\* The participation request of the next repository of the scan.
Scan(repo) ==
    /\ calls' = Append(calls, Call("participation", CreateGitHubHeaders))
    /\ agScanned' = Append(agScanned, repo.name)
    /\ agPc' = "awaitParticipation"
    /\ UNCHANGED <<agActivityData, agLoading, agError>>

\* The effect starts the run (the username is always set): setLoading(true),
\* setError(''), createGitHubHeaders and the repository request.
FetchActivityDataStart ==
    /\ Activity
    /\ agPc = "mount"
    /\ agLoading' = TRUE
    /\ agError' = NoError
    /\ calls' = Append(calls, Call("activityRepos", CreateGitHubHeaders))
    /\ agPc' = "awaitRepos"
    /\ UNCHANGED <<agActivityData, agRepos, agScanned, agGot>>
    /\ UNCHANGED <<envVars, nvVars, ruVars, ppVars, gaVars, pageVars, prVars, pdVars, spVars, got>>

\* The repository request settles: anything but a usable 2xx answer goes
\* to the outer catch; an empty list, or a list of forks only, stores the
\* empty activity; otherwise the scan starts with the first non-fork.
ActivityReposResponse ==
    /\ Activity
    /\ agPc = "awaitRepos"
    /\ \E a \in ActivityReposAnswers :
        /\ agGot' = Append(agGot, a)
        /\ IF ReposUnusable(a) THEN FailActivity
           ELSE /\ agRepos' = a.items
                /\ IF Len(a.items) = 0 \/ Len(NonFork(a.items)) = 0
                     THEN StoreActivity(<<>>)
                   ELSE Scan(NonFork(a.items)[1])
    /\ UNCHANGED <<envVars, nvVars, ruVars, ppVars, gaVars, pageVars, prVars, pdVars, spVars, got>>

\* A participation request settles inside its own try block: owner
\* activity ends the scan with that series; otherwise the next of the first
\* three non-forks is asked, and after the last the push dates are bucketed.
ParticipationResponse ==
    /\ Activity
    /\ agPc = "awaitParticipation"
    /\ \E a \in ParticipationAnswers :
        /\ agGot' = Append(agGot, a)
        /\ IF a.kind = "ok" /\ HasOwnerActivity(a.items)
             THEN StoreActivity(FormatParticipation(a.items))
           ELSE IF Len(agScanned) < Min(Len(NonFork(agRepos)), ScanCap)
             THEN Scan(NonFork(agRepos)[Len(agScanned) + 1])
           ELSE StoreActivity(FormatPushDates(agRepos))
    /\ UNCHANGED <<agRepos>>
    /\ UNCHANGED <<envVars, nvVars, ruVars, ppVars, gaVars, pageVars, prVars, pdVars, spVars, got>>

(***************************************************************************)
(* GitHubAuth                                                              *)
(***************************************************************************)
GitHubAuth == component = "GitHubAuth"

\* checkRateLimit(authToken) up to its await of fetch(url)
CheckRateLimit(authToken) == gaChecks' = gaChecks \cup {ClientTokenOf(authToken)}

\* the mount effect: a stored token is taken over as authenticated
GitHubAuthMount ==
    /\ GitHubAuth
    /\ gaPc = "mount"
    /\ gaPc' = "ready"
    /\ LET storedToken == localToken
       IN IF ~Falsy(storedToken)
          THEN /\ gaToken' = storedToken
               /\ gaIsAuthenticated' = TRUE
               /\ gaOnTokenChange' = storedToken
               /\ CheckRateLimit(storedToken)
          ELSE /\ CheckRateLimit(Null)
               /\ UNCHANGED <<gaToken, gaIsAuthenticated, gaOnTokenChange>>
    /\ UNCHANGED <<gaLoading, gaRateLimit, gaVerifying, gaGot, gaRouteGot>>
    /\ UNCHANGED <<envVars, nvVars, ruVars, ppVars, pageVars, prVars, pdVars, spVars, agVars, calls, got>>

\* the input's onChange (the field is rendered while not authenticated)
SetToken ==
    /\ GitHubAuth
    /\ gaPc = "ready"
    /\ ~gaIsAuthenticated
    /\ \E value \in InputTokens \ {gaToken} : gaToken' = value
    /\ UNCHANGED <<gaPc, gaIsAuthenticated, gaLoading, gaRateLimit, gaVerifying,
                   gaChecks, gaOnTokenChange, gaGot, gaRouteGot>>
    /\ UNCHANGED <<envVars, nvVars, ruVars, ppVars, pageVars, prVars, pdVars, spVars, agVars, calls, got>>

\* handleAuthenticate up to its await; the button is rendered while not
\* authenticated and disabled while loading or with a blank token
HandleAuthenticateStart ==
    /\ GitHubAuth
    /\ gaPc = "ready"
    /\ ~gaIsAuthenticated
    /\ ~gaLoading
    /\ Trim(gaToken) # EmptyStr
    /\ gaLoading' = TRUE
    /\ gaVerifying' = gaToken
    /\ UNCHANGED <<gaPc, gaToken, gaIsAuthenticated, gaRateLimit, gaChecks,
                   gaOnTokenChange, gaGot, gaRouteGot>>
    /\ UNCHANGED <<envVars, nvVars, ruVars, ppVars, pageVars, prVars, pdVars, spVars, agVars, calls, got>>

\* handleAuthenticate after its await: the token of the call is stored when
\* the answer is ok; the finally clears loading
VerifyResponse ==
    /\ GitHubAuth
    /\ gaVerifying # Null
    /\ \E kind \in VerificationKinds :
         /\ gaGot' = [token |-> gaVerifying, kind |-> kind,
                      stored |-> localToken,
                      authenticated |-> gaIsAuthenticated]
         /\ IF Verified(kind)
            THEN /\ localToken' = gaVerifying
                 /\ gaIsAuthenticated' = TRUE
                 /\ gaOnTokenChange' = gaVerifying
                 /\ CheckRateLimit(gaVerifying)
            ELSE UNCHANGED <<localToken, gaIsAuthenticated, gaOnTokenChange,
                             gaChecks>>
    /\ gaLoading' = FALSE
    /\ gaVerifying' = Null
    /\ UNCHANGED <<gaPc, gaToken, gaRateLimit, gaRouteGot>>
    /\ UNCHANGED <<component, envToken, serverEnvToken, nvVars, ruVars, ppVars>>
    /\ UNCHANGED <<pageVars, prVars, pdVars, spVars, agVars, calls, got>>

\* handleLogout (its button is rendered while authenticated)
HandleLogout ==
    /\ GitHubAuth
    /\ gaPc = "ready"
    /\ gaIsAuthenticated
    /\ localToken' = Null
    /\ gaToken' = EmptyStr
    /\ gaIsAuthenticated' = FALSE
    /\ gaOnTokenChange' = Null
    /\ CheckRateLimit(Null)
    /\ UNCHANGED <<gaPc, gaLoading, gaRateLimit, gaVerifying, gaGot, gaRouteGot>>
    /\ UNCHANGED <<component, envToken, serverEnvToken, nvVars, ruVars, ppVars>>
    /\ UNCHANGED <<pageVars, prVars, pdVars, spVars, agVars, calls, got>>

\* checkRateLimit after its await: the route asked GitHub and answered; a 500
\* has no data.rate, so reading data.rate.remaining throws into the catch
RateLimitResponse ==
    /\ GitHubAuth
    /\ \E clientToken \in gaChecks :
         \E a \in RateLimitAnswers(ServerCreateGitHubHeaders) :
            LET data == RouteAnswer(clientToken, a)
            IN /\ gaChecks' = gaChecks \ {clientToken}
               /\ gaRouteGot' = data
               /\ gaRateLimit' = IF data.status = 200
                                 THEN RateLimit(data.limit, data.tokenSource)
                                 ELSE gaRateLimit
    /\ UNCHANGED <<gaPc, gaToken, gaIsAuthenticated, gaLoading, gaVerifying,
                   gaOnTokenChange, gaGot>>
    /\ UNCHANGED <<envVars, nvVars, ruVars, ppVars, pageVars, prVars, pdVars, spVars, agVars, calls, got>>

(***************************************************************************)
(* ProjectsPage                                                            *)
(***************************************************************************)
Projects == component = "ProjectsPage"

\* fetchRepos up to its await
FetchReposStart ==
    /\ ppLoading' = TRUE
    /\ ppError' = NoError
    /\ calls' = Append(calls, Call("projectRepos", CreateGitHubHeaders))
    /\ ppInFlight' = ppInFlight + 1

\* The effects of the first render: the token effect reads localStorage,
\* fetchRepos starts, the filter effect stores the (empty) filtered list.  A
\* stored token changes the token state, so the page renders once more.
ProjectsMount ==
    /\ Projects
    /\ ppPc = "mount"
    /\ FetchReposStart
    /\ ppFilteredRepos' = FilterAndSort(ppRepos, ppFilter, ppSortBy, ppSearchQuery)
    /\ ppPc' = IF ~Falsy(localToken) THEN "tokenChanged" ELSE "ready"
    /\ UNCHANGED <<ppRepos, ppFilter, ppSortBy, ppSearchQuery, ppGot>>
    /\ UNCHANGED <<envVars, nvVars, ruVars, gaVars, pageVars, prVars, pdVars, spVars, agVars, got>>

\* The render after setToken: [username, token] changed, fetchRepos runs
\* again while the first request may still be in flight.
ProjectsTokenChanged ==
    /\ Projects
    /\ ppPc = "tokenChanged"
    /\ FetchReposStart
    /\ ppPc' = "ready"
    /\ UNCHANGED <<ppRepos, ppFilteredRepos, ppFilter, ppSortBy, ppSearchQuery,
                   ppGot>>
    /\ UNCHANGED <<envVars, nvVars, ruVars, gaVars, pageVars, prVars, pdVars, spVars, agVars, got>>

\* A repository request settles: setRepos(reposData), or the catch's
\* setError and setRepos([]); finally setLoading(false); the filter effect
\* runs on the new repos.
ProjectsReposResponse ==
    /\ Projects
    /\ ppInFlight > 0
    /\ \E a \in ProjectsAnswers :
         /\ ppGot' = a
         /\ ppRepos' = IF Failed(a) THEN <<>> ELSE a.items
         /\ ppError' = IF Failed(a) THEN ProjectsError(a) ELSE ppError
    /\ ppLoading' = FALSE
    /\ ppInFlight' = ppInFlight - 1
    /\ ppFilteredRepos' = FilterAndSort(ppRepos', ppFilter, ppSortBy, ppSearchQuery)
    /\ UNCHANGED <<ppPc, ppFilter, ppSortBy, ppSearchQuery, calls>>
    /\ UNCHANGED <<envVars, nvVars, ruVars, gaVars, pageVars, prVars, pdVars, spVars, agVars, got>>

\* the controls are rendered when the page is neither loading nor in error
ControlsShown == Projects /\ ppPc # "mount" /\ ~ppLoading /\ ppError = NoError

\* a filter button: setFilter, then the filter effect
SetFilter ==
    /\ ControlsShown
    /\ \E value \in Filters \ {ppFilter} :
         /\ ppFilter' = value
         /\ ppFilteredRepos' = FilterAndSort(ppRepos, value, ppSortBy, ppSearchQuery)
    /\ UNCHANGED <<ppPc, ppRepos, ppLoading, ppError, ppSortBy, ppSearchQuery,
                   ppInFlight, ppGot, calls>>
    /\ UNCHANGED <<envVars, nvVars, ruVars, gaVars, pageVars, prVars, pdVars, spVars, agVars, got>>

\* a sort button: setSortBy, then the filter effect
SetSortBy ==
    /\ ControlsShown
    /\ \E value \in SortKeys \ {ppSortBy} :
         /\ ppSortBy' = value
         /\ ppFilteredRepos' = FilterAndSort(ppRepos, ppFilter, value, ppSearchQuery)
    /\ UNCHANGED <<ppPc, ppRepos, ppLoading, ppError, ppFilter, ppSearchQuery,
                   ppInFlight, ppGot, calls>>
    /\ UNCHANGED <<envVars, nvVars, ruVars, gaVars, pageVars, prVars, pdVars, spVars, agVars, got>>

\* the search field: setSearchQuery, then the filter effect
SetSearchQuery ==
    /\ ControlsShown
    /\ \E value \in SearchQueries \ {ppSearchQuery} :
         /\ ppSearchQuery' = value
         /\ ppFilteredRepos' = FilterAndSort(ppRepos, ppFilter, ppSortBy, value)
    /\ UNCHANGED <<ppPc, ppRepos, ppLoading, ppError, ppFilter, ppSortBy,
                   ppInFlight, ppGot, calls>>
    /\ UNCHANGED <<envVars, nvVars, ruVars, gaVars, pageVars, prVars, pdVars, spVars, agVars, got>>

(***************************************************************************)
(* ProfilePage with the token effect: overlapping runs                     *)
(***************************************************************************)
ProfileRuns == component = "ProfilePageRuns"

RunInFlight(r) == ruPc[r] \in {"awaitUser", "awaitRepos", "awaitGraphql"}

\* fetchGitHubProfile of run r up to its first await
RunStart(r) ==
    /\ loading' = TRUE
    /\ error' = NoError
    /\ ruPc' = [ruPc EXCEPT ![r] = "awaitUser"]
    /\ ruStarted' = Append(ruStarted, r)

\* the outer catch and finally of run r
RunFail(r, message) ==
    /\ error' = ErrorText(message)
    /\ userData' = Null
    /\ repos' = JsArray(<<>>)
    /\ pinnedRepos' = <<>>
    /\ loading' = FALSE
    /\ ruPc' = [ruPc EXCEPT ![r] = "done"]
    /\ ruResult' = [ruResult EXCEPT ![r] = "failed"]

\* The effects of the first render: the token effect reads localStorage and
\* the first run starts.
RunsMount ==
    /\ ProfileRuns
    /\ ruPc[1] = "idle"
    /\ RunStart(1)
    /\ ruTokenChanged' = ~Falsy(localToken)
    /\ UNCHANGED <<userData, repos, pinnedRepos, skills, ruReposData, ruResult>>
    /\ UNCHANGED <<envVars, nvVars, ppVars, gaVars, prVars, pdVars, spVars, agVars,
                   pc, reposData, calls, got>>

\* The render after setToken(storedToken): [username, token] changed, so the
\* effect starts a second run; nothing cancels the first.
RunsTokenChanged ==
    /\ ProfileRuns
    /\ ruTokenChanged
    /\ ruPc[2] = "idle"
    /\ RunStart(2)
    /\ ruTokenChanged' = FALSE
    /\ UNCHANGED <<userData, repos, pinnedRepos, skills, ruReposData, ruResult>>
    /\ UNCHANGED <<envVars, nvVars, ppVars, gaVars, prVars, pdVars, spVars, agVars,
                   pc, reposData, calls, got>>

\* the profile request of run r settles
RunUserResponse ==
    /\ ProfileRuns
    /\ ~ruTokenChanged
    /\ \E r \in Runs :
         /\ ruPc[r] = "awaitUser"
         /\ \E a \in RunUserAnswers :
              IF a.kind = "throw"
                THEN RunFail(r, "Failed to fetch")
              ELSE IF ~Ok(a.status)
                THEN RunFail(r, UserNotFound(a.status))
              ELSE /\ userData' = Username
                   /\ ruPc' = [ruPc EXCEPT ![r] = "awaitRepos"]
                   /\ UNCHANGED <<loading, error, repos, pinnedRepos, ruResult>>
    /\ UNCHANGED <<skills, ruReposData, ruStarted, ruTokenChanged>>
    /\ UNCHANGED <<envVars, nvVars, ppVars, gaVars, prVars, pdVars, spVars, agVars,
                   pc, reposData, calls, got>>

\* the repository request of run r settles
RunReposResponse ==
    /\ ProfileRuns
    /\ \E r \in Runs :
         /\ ruPc[r] = "awaitRepos"
         /\ \E a \in RunReposAnswers :
              IF a.kind = "throw"
                THEN RunFail(r, "Failed to fetch") /\ UNCHANGED <<ruReposData>>
              ELSE /\ ruReposData' = [ruReposData EXCEPT ![r] = ReposJson(a)]
                   /\ repos' = ReposJson(a)
                   /\ ruPc' = [ruPc EXCEPT ![r] = "awaitGraphql"]
                   /\ UNCHANGED <<loading, error, userData, pinnedRepos, ruResult>>
    /\ UNCHANGED <<skills, ruStarted, ruTokenChanged>>
    /\ UNCHANGED <<envVars, nvVars, ppVars, gaVars, prVars, pdVars, spVars, agVars,
                   pc, reposData, calls, got>>

\* the GraphQL request of run r settles: pinned repositories, skills, finally
RunGraphqlResponse ==
    /\ ProfileRuns
    /\ \E r \in Runs :
         /\ ruPc[r] = "awaitGraphql"
         /\ \E a \in RunGraphqlAnswers :
              LET list == ruReposData[r].items
                  pinnedItems == IF a.kind = "response" /\ a.body.kind = "array"
                                 THEN a.body.items ELSE <<>>
                  innerThrows == a.kind \in {"throw", "malformed"}
              IN /\ pinnedRepos' = IF innerThrows
                                   THEN FallbackRepos(list)
                                   ELSE FormattedPinnedRepos(pinnedItems, list, Clock)
                 /\ skills' = ExtractSkills(list)
                 /\ loading' = FALSE
                 /\ ruPc' = [ruPc EXCEPT ![r] = "done"]
                 /\ ruResult' = [ruResult EXCEPT ![r] = "succeeded"]
    /\ UNCHANGED <<error, userData, repos, ruReposData, ruStarted, ruTokenChanged>>
    /\ UNCHANGED <<envVars, nvVars, ppVars, gaVars, prVars, pdVars, spVars, agVars,
                   pc, reposData, calls, got>>

(***************************************************************************)
(* ProjectDetailsPage across a change of its repo parameter                *)
(***************************************************************************)
Visits == component = "ProjectDetailsVisits"

\* fetchRepoData up to its first await
VisitRun ==
    /\ pdLoading' = TRUE
    /\ pdError' = NoError
    /\ nvPc' = "awaitRepo"
    /\ nvGot' = NothingFetched
    /\ nvVisits' = nvVisits + 1

\* the effect of the first render
VisitStart ==
    /\ Visits
    /\ nvPc = "mount"
    /\ VisitRun
    /\ UNCHANGED <<nvRepoName, nvStoredBy>>
    /\ UNCHANGED <<pdRepoData, pdReadme, pdContributors, pdLanguages, pdPc, pdGot>>
    /\ UNCHANGED <<envVars, ruVars, ppVars, gaVars, pageVars, prVars, spVars,
                   agVars, calls, got>>

\* The repo parameter changes after a run has finished: [username, repoName,
\* token] changed, so fetchRepoData runs for the new repository; readme,
\* contributors and languages are not reset.
RepoChanged ==
    /\ Visits
    /\ nvPc = "done"
    /\ nvVisits < MaxVisits
    /\ \E name \in VisitRepos \ {nvRepoName} : nvRepoName' = name
    /\ VisitRun
    /\ UNCHANGED <<nvStoredBy>>
    /\ UNCHANGED <<pdRepoData, pdReadme, pdContributors, pdLanguages, pdPc, pdGot>>
    /\ UNCHANGED <<envVars, ruVars, ppVars, gaVars, pageVars, prVars, spVars,
                   agVars, calls, got>>

\* the repository request settles
VisitRepoResponse ==
    /\ Visits
    /\ nvPc = "awaitRepo"
    /\ \E a \in VisitRepoAnswers(nvRepoName) :
         IF a.kind = "throw" \/ ~Ok(a.status)
           THEN /\ pdError' = ErrorText(IF a.kind = "throw" THEN "Failed to fetch"
                                        ELSE RepositoryNotFound(a.status))
                /\ pdRepoData' = Null
                /\ pdLoading' = FALSE
                /\ nvPc' = "done"
         ELSE /\ pdRepoData' = a.body
              /\ nvPc' = "awaitReadme"
              /\ UNCHANGED <<pdError, pdLoading>>
    /\ UNCHANGED <<nvRepoName, nvVisits, nvStoredBy, nvGot>>
    /\ UNCHANGED <<pdReadme, pdContributors, pdLanguages, pdPc, pdGot>>
    /\ UNCHANGED <<envVars, ruVars, ppVars, gaVars, pageVars, prVars, spVars,
                   agVars, calls, got>>

\* the README request settles inside its own try block
VisitReadmeResponse ==
    /\ Visits
    /\ nvPc = "awaitReadme"
    /\ \E a \in VisitReadmeAnswers :
         /\ nvGot' = [nvGot EXCEPT !.readme = Fetched(a)]
         /\ IF Fetched(a) = "ok" /\ ~ReadmeThrows(a.body)
              THEN /\ pdReadme' = DecodeReadme(a.body)
                   /\ nvStoredBy' = [nvStoredBy EXCEPT !.readme = nvRepoName]
            ELSE UNCHANGED <<pdReadme, nvStoredBy>>
    /\ nvPc' = "awaitContributors"
    /\ UNCHANGED <<nvRepoName, nvVisits>>
    /\ UNCHANGED <<pdRepoData, pdContributors, pdLanguages, pdLoading, pdError,
                   pdPc, pdGot>>
    /\ UNCHANGED <<envVars, ruVars, ppVars, gaVars, pageVars, prVars, spVars,
                   agVars, calls, got>>

\* the contributors request settles inside its own try block
VisitContributorsResponse ==
    /\ Visits
    /\ nvPc = "awaitContributors"
    /\ \E a \in VisitContributorsAnswers :
         /\ nvGot' = [nvGot EXCEPT !.contributors = Fetched(a)]
         /\ IF Fetched(a) = "ok"
              THEN /\ pdContributors' = a.body
                   /\ nvStoredBy' = [nvStoredBy EXCEPT !.contributors = nvRepoName]
            ELSE UNCHANGED <<pdContributors, nvStoredBy>>
    /\ nvPc' = "awaitLanguages"
    /\ UNCHANGED <<nvRepoName, nvVisits>>
    /\ UNCHANGED <<pdRepoData, pdReadme, pdLanguages, pdLoading, pdError, pdPc,
                   pdGot>>
    /\ UNCHANGED <<envVars, ruVars, ppVars, gaVars, pageVars, prVars, spVars,
                   agVars, calls, got>>

\* the languages request settles inside its own try block; finally
VisitLanguagesResponse ==
    /\ Visits
    /\ nvPc = "awaitLanguages"
    /\ \E a \in VisitLanguagesAnswers :
         /\ nvGot' = [nvGot EXCEPT !.languages = Fetched(a)]
         /\ IF Fetched(a) = "ok"
              THEN /\ pdLanguages' = a.body
                   /\ nvStoredBy' = [nvStoredBy EXCEPT !.languages = nvRepoName]
            ELSE UNCHANGED <<pdLanguages, nvStoredBy>>
    /\ pdLoading' = FALSE
    /\ nvPc' = "done"
    /\ UNCHANGED <<nvRepoName, nvVisits>>
    /\ UNCHANGED <<pdRepoData, pdReadme, pdContributors, pdError, pdPc, pdGot>>
    /\ UNCHANGED <<envVars, ruVars, ppVars, gaVars, pageVars, prVars, spVars,
                   agVars, calls, got>>

Next ==
    \/ FetchProfileStart
    \/ UserResponse
    \/ ReposResponse
    \/ GraphqlResponse
    \/ PinnedReposStart
    \/ PinnedReposGraphqlResponse
    \/ FetchRepoDataStart
    \/ RepoResponse
    \/ ReadmeResponse
    \/ ContributorsResponse
    \/ LanguagesResponse
    \/ FindSimilarProfilesStart
    \/ LanguageSearchResponse
    \/ RepoContributorsResponse
    \/ TopicSearchResponse
    \/ FollowersResponse
    \/ FollowingResponse
    \/ ProfilesResponse
    \/ FetchActivityDataStart
    \/ ActivityReposResponse
    \/ ParticipationResponse
    \/ GitHubAuthMount
    \/ SetToken
    \/ HandleAuthenticateStart
    \/ VerifyResponse
    \/ HandleLogout
    \/ RateLimitResponse
    \/ ProjectsMount
    \/ ProjectsTokenChanged
    \/ ProjectsReposResponse
    \/ SetFilter
    \/ SetSortBy
    \/ SetSearchQuery
    \/ RunsMount
    \/ RunsTokenChanged
    \/ RunUserResponse
    \/ RunReposResponse
    \/ RunGraphqlResponse
    \/ VisitStart
    \/ RepoChanged
    \/ VisitRepoResponse
    \/ VisitReadmeResponse
    \/ VisitContributorsResponse
    \/ VisitLanguagesResponse

Spec == Init /\ [][Next]_vars

(***************************************************************************)
(* Properties.                                                             *)
(***************************************************************************)
Done == pc = "done"
Succeeded == Done /\ error = NoError /\ userData # Null
Issued(endpoint) == \E i \in 1..Len(calls) : calls[i].endpoint = endpoint
ProfileFetchFailedWith(status) ==
    got.user.kind = "response" /\ got.user.status = status /\ ~(status = "200")

\* The credential the environment configures for the mounted component.
EnvCredential == IF component = "ProfilePage" THEN envToken ELSE serverEnvToken

\* C1: on every outbound call, REST or GraphQL, an environment-configured
\* credential, when present, is the one attached, whether or not a stored
\* (localStorage) credential is present as well.
C1_EnvironmentCredentialWins ==
    \A i \in 1..Len(calls) :
        ~Falsy(EnvCredential) => calls[i].auth.cred = EnvCredential

\* C2: when neither an environment credential nor a stored one resolves, no
\* request to the GraphQL endpoint is issued in the run.
C2_NoCredentialNoGraphql ==
    (Falsy(EnvCredential) /\ Falsy(localToken)) => ~Issued("graphql")

\* C3: a profile fetch answered 404 ends the run in the fatal error state,
\* and neither the repository request nor the pinned-items request is made.
C3_NotFoundIsFatalAndFetchesNothing ==
    ProfileFetchFailedWith("404") =>
        /\ Done
        /\ error = "Error: User not found (404)"
        /\ userData = Null
        /\ View = "ProfileNotFound"
        /\ ~Issued("repos")
        /\ ~Issued("graphql")
        /\ Len(calls) = 1

C3_Witness == ProfileFetchFailedWith("404") /\ Done

\* C4 as stated: a failed profile fetch is shown as Profile Not Found exactly
\* when the status is of the not-found class, and as something else otherwise.
C4_NotFoundDistinctFromUpstreamError ==
    \A st \in Statuses :
        (Done /\ ProfileFetchFailedWith(st)) =>
            ((View = "ProfileNotFound") <=> (st = "404"))

\* C4 amended: every non-2xx profile answer, not-found or not, ends in the
\* same Profile Not Found view with userData cleared; the status survives
\* only inside the text of the error message, "User not found (<status>)".
C4_EveryFailureIsUserNotFound ==
    \A st \in Statuses :
        (Done /\ ProfileFetchFailedWith(st)) =>
            /\ View = "ProfileNotFound"
            /\ userData = Null
            /\ error = "Error: User not found (" \o st \o ")"

C4_Witness == Done /\ ProfileFetchFailedWith("500") /\ View = "ProfileNotFound"

\* The repository list of the run, when the repository request gave one.
GotList == got.repos.kind = "response" /\ got.repos.body.kind = "array"
RestList == got.repos.body.items

Languages(list) == {list[i].language : i \in 1..Len(list)} \ {Null, Undefined, EmptyStr}
FirstAppearance(list, l) == CHOOSE i \in 1..Len(list) :
    list[i].language = l /\ \A j \in 1..(i - 1) : list[j].language # l

\* C5: for every repository list, the skills hold no duplicate, are non-null
\* languages of the list in order of first appearance, are at most 6, and
\* are the first ones: no language left out appears before one kept.
C5_SkillsDistinctOrderedCapped ==
    (Succeeded /\ GotList) =>
        /\ Len(skills) <= 6
        /\ \A i, j \in 1..Len(skills) : i # j => skills[i] # skills[j]
        /\ Range(skills) \subseteq Languages(RestList)
        /\ \A i, j \in 1..Len(skills) :
              i < j => FirstAppearance(RestList, skills[i]) < FirstAppearance(RestList, skills[j])
        /\ \A l \in Languages(RestList) \ Range(skills) :
              /\ Len(skills) = 6
              /\ \A k \in Range(skills) :
                    FirstAppearance(RestList, k) < FirstAppearance(RestList, l)

\* a list with a repeated language, a null language and more than 6 languages
C5_Witness ==
    /\ Succeeded /\ GotList
    /\ Cardinality(Languages(RestList)) > 6
    /\ Len(skills) = 6
    /\ \E i, j \in 1..Len(RestList) :
          i # j /\ RestList[i].language = RestList[j].language
    /\ \E i \in 1..Len(RestList) : RestList[i].language = Null

\* C6: a repository request answered non-2xx, or with a body that is no
\* list, or with an empty list, leaves the profile rendered with an empty
\* skill set; the aggregation does not fail.
C6_MissingListIsNotAFailure ==
    (Done /\ got.repos.kind = "response"
          /\ (~Ok(got.repos.status) \/ ~GotList \/ RestList = <<>>)) =>
        /\ error = NoError
        /\ userData # Null
        /\ skills = <<>>
        /\ View # "ProfileNotFound"

\* The pinned items of the run, when the GraphQL request gave some.
GotPinned == got.graphql.kind = "response" /\ got.graphql.body.kind = "array"
PinnedItems == got.graphql.body.items
Matches(list, n) == {i \in 1..Len(list) : list[i].name = n}

\* C7: a pinned item whose name no entry of the REST list carries yields a
\* featured entry with homepage absent and the three timestamps set to the
\* current time, and the aggregation does not fail.
C7_UnmatchedPinnedGetsPlaceholders ==
    (Done /\ component = "ProfilePage" /\ GotList /\ GotPinned) =>
        \A i \in 1..Len(PinnedItems) :
            Matches(RestList, PinnedItems[i].name) = {} =>
                /\ Succeeded
                /\ Len(pinnedRepos) = Len(PinnedItems)
                /\ pinnedRepos[i].name = PinnedItems[i].name
                /\ pinnedRepos[i].homepage = Null
                /\ pinnedRepos[i].created_at = Clock
                /\ pinnedRepos[i].updated_at = Clock
                /\ pinnedRepos[i].pushed_at = Clock

\* a pinned item unmatched only by the case of its name, the list holding r1
C7_Witness ==
    /\ Done /\ component = "ProfilePage" /\ GotList /\ GotPinned
    /\ \E i \in 1..Len(PinnedItems) :
          /\ PinnedItems[i].name = "R1"
          /\ Matches(RestList, "r1") # {}
          /\ pinnedRepos[i].pushed_at = Clock

MatchedItems(list) == SelectSeq(PinnedItems, LAMBDA it : Matches(list, it.name) # {})

IsTopNonForkBy(f, list, field, k) ==
    LET Key(r) == IF field = "pushed_at" THEN r.pushed_at ELSE r.stargazers_count
        Pos(r) == CHOOSE i \in 1..Len(list) : list[i].name = r.name
        Before(a, b) == Key(a) > Key(b) \/ (Key(a) = Key(b) /\ Pos(a) < Pos(b))
        nonFork == {i \in 1..Len(list) : ~list[i].fork}
    IN /\ Len(f) = Min(k, Cardinality(nonFork))
       /\ \A j \in 1..Len(f) : \E i \in nonFork : list[i] = f[j]
       /\ \A i, j \in 1..Len(f) : i < j => Before(f[i], f[j])
       /\ \A i \in nonFork :
             (\A j \in 1..Len(f) : f[j] # list[i]) =>
                 \A j \in 1..Len(f) : Before(f[j], list[i])

\* The pinned stage of the run gave no item.
NoCredential == Falsy(envToken) /\ Falsy(localToken)
GraphqlThrew == got.graphql.kind \in {"throw", "malformed"}
GraphqlGaveNothing ==
    got.graphql.kind = "response" /\ (~GotPinned \/ PinnedItems = <<>>)
Rendered == Succeeded /\ component = "ProfilePage" /\ GotList

\* C9 as stated: whenever the pinned stage gives no item (no credential, a
\* failed or thrown GraphQL request, an empty pin list), the featured list is
\* the non-fork repositories by descending pushed_at, first 4.
C9_FallbackIsMostRecentlyPushedFour ==
    (Rendered /\ (GraphqlThrew \/ GraphqlGaveNothing)) =>
        IsTopNonForkBy(Featured, RestList, "pushed_at", 4)

\* C9 amended: when the GraphQL request resolves without pinned items (no
\* credential, an envelope without data, an empty pin list) the featured
\* list is the non-fork repositories by descending pushed_at, first 4; when
\* the request or the reading of its body throws, it is the non-fork
\* repositories by descending stargazers_count, first 6.
C9_FallbackByCause ==
    /\ (Rendered /\ GraphqlGaveNothing) =>
          /\ pinnedRepos = <<>>
          /\ IsTopNonForkBy(Featured, RestList, "pushed_at", 4)
    /\ (Rendered /\ GraphqlThrew) =>
          IsTopNonForkBy(Featured, RestList, "stargazers_count", 6)

\* no credential, more than 4 non-fork repositories, two of them pushed at
\* the same time, a fork in the list
C9_Witness ==
    /\ Rendered /\ GraphqlGaveNothing /\ NoCredential
    /\ View = "MostActive"
    /\ Len(Featured) = 4
    /\ Len(NonFork(RestList)) > 4
    /\ Len(NonFork(RestList)) < Len(RestList)
    /\ \E i, j \in 1..Len(Featured) : i # j /\ Featured[i].pushed_at = Featured[j].pushed_at

\* the thrown request, with more than 6 non-fork repositories
C9_WitnessThrown ==
    /\ Rendered /\ GraphqlThrew
    /\ View = "Pinned"
    /\ Len(Featured) = 6
    /\ Len(NonFork(RestList)) > 6

RepoFetchFailed ==
    \/ got.repos.kind \in {"throw", "malformed"}
    \/ (got.repos.kind = "response" /\ (~Ok(got.repos.status) \/ ~GotList))
RepoFetchGaveEmptyList ==
    got.repos.kind = "response" /\ Ok(got.repos.status) /\ GotList /\ RestList = <<>>

\* C10: once the run is over, a repository request that succeeded with an
\* empty list shows the "no repositories" view, and one that failed never
\* does: the two never end in the same page state.
C10_EmptyListDistinctFromFailedFetch ==
    Done =>
        /\ RepoFetchGaveEmptyList => (View = "NoRepositories" /\ error = NoError)
        /\ RepoFetchFailed => (View # "NoRepositories" /\ error # NoError)

C10_Witness == Done /\ RepoFetchGaveEmptyList /\ View = "NoRepositories"

\* the other side: a failed repository request, run over
C10_WitnessFailed ==
    Done /\ got.repos.kind = "response" /\ ~Ok(got.repos.status) /\ View = "ProfileNotFound"

(***************************************************************************)
(* ProjectDetailsPage properties.                                          *)
(***************************************************************************)
Details == component = "ProjectDetailsPage"
OptionalFetches == {"readme", "contributors", "languages"}
Settled(a) == a.kind # "none"
Answered2xx(a) == a.kind = "response" /\ a.status = "200"
RepoFetchFailedHere == Settled(pdGot.repo) /\ ~Answered2xx(pdGot.repo)

\* C11: when the repository metadata request fails (it throws, answers a
\* non-2xx status, or answers a body that is not JSON), the run is over in
\* the error state with no repository data and not loading, and no README,
\* contributors or languages request has been issued.
C11_MetadataFailureIsFatal ==
    (Details /\ RepoFetchFailedHere) =>
        /\ pdPc = "done"
        /\ pdError # NoError
        /\ pdRepoData = Null
        /\ ~pdLoading
        /\ \A e \in OptionalFetches : ~Issued(e)

C11_Witness ==
    /\ Details
    /\ pdGot.repo = Outcome("response", "404", Null)
    /\ pdError = "Error: Repository not found (404)"
    /\ Len(calls) = 1

\* The README request gave nothing to store: no 2xx JSON answer, or a body
\* whose content is missing or is not base64.
ReadmeFailed ==
    /\ Settled(pdGot.readme)
    /\ \/ ~Answered2xx(pdGot.readme)
       \/ pdGot.readme.body \in {Undefined, "%%%"}
ContributorsFailed ==
    Settled(pdGot.contributors) /\ ~Answered2xx(pdGot.contributors)
LanguagesFailed == Settled(pdGot.languages) /\ ~Answered2xx(pdGot.languages)

\* C12: once the repository metadata is stored, whatever happens to an
\* optional request (thrown, non-2xx, undecodable) the error state stays
\* unset and the metadata stays; the next optional request is issued as
\* soon as the previous one settles, the run ends not loading, and every
\* optional request that succeeded has its result stored (the README as the
\* decoded text).
C12_OptionalFailuresAreIsolated ==
    (Details /\ Answered2xx(pdGot.repo)) =>
        /\ pdError = NoError
        /\ pdRepoData = RepoName
        /\ Issued("readme")
        /\ Settled(pdGot.readme) => Issued("contributors")
        /\ Settled(pdGot.contributors) => Issued("languages")
        /\ Settled(pdGot.languages) => (pdPc = "done" /\ ~pdLoading)
        /\ ReadmeFailed => pdReadme = EmptyStr
        /\ (Settled(pdGot.readme) /\ ~ReadmeFailed) =>
              pdReadme = (IF pdGot.readme.body = "" THEN "" ELSE "# Title")
        /\ Answered2xx(pdGot.contributors) =>
              pdContributors = pdGot.contributors.body
        /\ Answered2xx(pdGot.languages) => pdLanguages = pdGot.languages.body

C12_Witness ==
    /\ Details
    /\ pdPc = "done"
    /\ pdGot.readme.kind = "throw"
    /\ pdGot.contributors = Outcome("response", "403", <<>>)
    /\ Answered2xx(pdGot.languages)
    /\ Len(pdLanguages) = 2
    /\ pdError = NoError

C12_WitnessReadmeStored ==
    /\ Details
    /\ pdPc = "done"
    /\ pdGot.readme = Outcome("response", "200", "IyBU\naXRsZQ==\n")
    /\ pdReadme = "# Title"
    /\ ContributorsFailed
    /\ LanguagesFailed

\* C13 as the specification states it: the three optional requests do not
\* wait for one another, so whenever the README request has been issued the
\* contributors and languages requests have been issued too.
C13_OptionalFetchesIssuedTogether ==
    (Details /\ Issued("readme")) =>
        (Issued("contributors") /\ Issued("languages"))

\* the optional requests that have been issued and have not settled
InFlight ==
    {e \in OptionalFetches : Issued(e) /\ ~Settled(pdGot[e])}

\* C13 as the code behaves: the optional requests are awaited one after the
\* other; at most one of them is in flight, the contributors request is
\* issued only after the README request has settled, and the languages
\* request only after the contributors request has settled.
C13_OptionalFetchesAreSequential ==
    Details =>
        /\ Cardinality(InFlight) <= 1
        /\ Issued("contributors") => Settled(pdGot.readme)
        /\ Issued("languages") => Settled(pdGot.contributors)

C13_Witness ==
    /\ Details
    /\ InFlight = {"contributors"}
    /\ Settled(pdGot.readme)
    /\ ~Issued("languages")

\* the percentages the page shows for the stored breakdown
Shown == CalculateLanguagePercentages(pdLanguages)
Bytes(i) == pdLanguages[i].bytes
RECURSIVE SumPercentages(_)
SumPercentages(s) ==
    IF s = <<>> THEN 0 ELSE s[1].percentage + SumPercentages(Tail(s))
BytesAre(counts) ==
    /\ Len(pdLanguages) = Len(counts)
    /\ \A i \in 1..Len(counts) : Bytes(i) = counts[i]

\* C14: each shown percentage is the integer nearest to bytes/total*100
\* (a half goes up) and nothing is corrected afterwards: 30 and 70 bytes
\* show 30 and 70, three languages of 1 byte each show 33 each, which sum
\* to 99.
C14_PercentageIsRoundedShare ==
    Details =>
        LET total == SumBytes(pdLanguages)
        IN /\ \A i \in 1..Len(pdLanguages) :
                /\ Shown[i].language = pdLanguages[i].language
                /\ 2 * total * Shown[i].percentage - total <= 200 * Bytes(i)
                /\ 200 * Bytes(i) < 2 * total * Shown[i].percentage + total
           /\ BytesAre(<<30, 70>>) =>
                (Shown[1].percentage = 30 /\ Shown[2].percentage = 70)
           /\ BytesAre(<<1, 1, 1>>) =>
                /\ \A i \in 1..3 : Shown[i].percentage = 33
                /\ SumPercentages(Shown) \in {99, 100}

C14_Witness ==
    /\ Details
    /\ pdPc = "done"
    /\ BytesAre(<<1, 1, 1>>)
    /\ SumPercentages(Shown) = 99

C14_WitnessHalf ==
    /\ Details
    /\ BytesAre(<<3, 3, 2>>)
    /\ Shown[1].percentage = 38

\* C15 as the specification states it: the shown percentages of a non-empty
\* breakdown sum to at most 100.
C15_PercentagesSumToAtMost100 ==
    (Details /\ pdLanguages # <<>>) => SumPercentages(Shown) <= 100

\* C15 as the code behaves: each percentage is rounded on its own, so the
\* sum of a non-empty breakdown of n languages differs from 100 by at most
\* n/2, on either side.
C15_PercentagesSumNear100 ==
    (Details /\ pdLanguages # <<>>) =>
        LET sum == SumPercentages(Shown)
            n == Len(pdLanguages)
        IN /\ 2 * (sum - 100) <= n
           /\ 2 * (100 - sum) < n

C15_Witness ==
    /\ Details
    /\ pdPc = "done"
    /\ BytesAre(<<3, 3, 2>>)
    /\ SumPercentages(Shown) = 101

(***************************************************************************)
(* SimilarProfiles properties.                                             *)
(***************************************************************************)
\* the run reached setSimilarUsers(enhancedUsers)
Completed == Similar /\ spPc = "done" /\ spError = NoError

DiscoveringEndpoints == {"repoContributors", "topicSearch", "following"}

\* the reason a strategy gives, given the reason of the language strategy
ReasonOf(endpoint, languageReason) ==
    CASE endpoint = "repoContributors" -> languageReason
      [] endpoint = "topicSearch" -> WorksOnSimilarTopics
      [] OTHER -> FollowedByFollowers

\* the accounts of one answer that a strategy looks at, other than the
\* profile's own, each with the reason of the strategy
FoundIn(a, languageReason) ==
    IF a.kind = "ok" /\ a.endpoint \in DiscoveringEndpoints
      THEN LET seen == IF a.endpoint = "repoContributors"
                         THEN SubSeq(a.items, 1, Min(5, Len(a.items)))
                       ELSE a.items
               others == SelectSeq(seen, LAMBDA l : l # "octocat")
               reason == ReasonOf(a.endpoint, languageReason)
           IN [i \in 1..Len(others) |-> [login |-> others[i], reason |-> reason]]
    ELSE <<>>

RECURSIVE DiscoveredIn(_, _)
DiscoveredIn(settled, languageReason) ==
    IF settled = <<>> THEN <<>>
    ELSE FoundIn(Head(settled), languageReason)
           \o DiscoveredIn(Tail(settled), languageReason)

\* every discovery of the run, in the order the strategies made it
Discovered == DiscoveredIn(spGot, AlsoWorksWith(PrimaryLanguage(spRepos)))

LoginsOf(d) == {d[i].login : i \in 1..Len(d)}

RECURSIVE FirstsFrom(_, _)
FirstsFrom(d, acc) ==
    IF d = <<>> THEN acc
    ELSE FirstsFrom(Tail(d),
                    IF Head(d).login \in LoginsOf(acc) THEN acc
                    ELSE Append(acc, Head(d)))

\* the discoveries of d that found a login for the first time, in order
FirstDiscoveries(d) == FirstsFrom(d, <<>>)

ReasonsOf(d, login) ==
    {d[i].reason : i \in {j \in 1..Len(d) : d[j].login = login}}

EntriesOf(list, login) == {i \in 1..Len(list) : list[i].login = login}

\* C16: a login that two or more strategies discovered has exactly one
\* entry in the merged map, with the reason of the strategy that found it
\* first (language, then topic, then followers); in the result of a run that
\* completes it appears at most once, and exactly once with that reason
\* when it is among the first six logins discovered.
C16_OneCandidatePerLoginFirstReasonWins ==
    Similar =>
      LET d == Discovered
          firsts == FirstDiscoveries(d)
      IN \A k \in 1..Len(firsts) :
           LET login == firsts[k].login
           IN Cardinality(ReasonsOf(d, login)) >= 2 =>
                /\ Cardinality(EntriesOf(spSet, login)) = 1
                /\ \A i \in EntriesOf(spSet, login) :
                      spSet[i].similarity_reason = firsts[k].reason
                /\ Completed =>
                      /\ Cardinality(EntriesOf(spSimilarUsers, login)) <= 1
                      /\ k <= 6 =>
                            /\ Cardinality(EntriesOf(spSimilarUsers, login)) = 1
                            /\ \A i \in EntriesOf(spSimilarUsers, login) :
                                  spSimilarUsers[i].similarity_reason = firsts[k].reason

C16_Witness ==
    /\ Completed
    /\ ReasonsOf(Discovered, "u3") =
          {"Also works with TypeScript", WorksOnSimilarTopics}
    /\ \E i \in 1..Len(spSimilarUsers) :
          /\ spSimilarUsers[i].login = "u3"
          /\ spSimilarUsers[i].similarity_reason = "Also works with TypeScript"

\* C17: the result never holds more than six entries, and the result of a
\* run that completes holds exactly the first six distinct logins in the
\* order the strategies discovered them (all of them when fewer).
C17_ResultIsFirstSixDiscovered ==
    Similar =>
        /\ Len(spSimilarUsers) <= 6
        /\ Completed =>
              LET firsts == FirstDiscoveries(Discovered)
              IN /\ Len(spSimilarUsers) = Min(6, Len(firsts))
                 /\ \A k \in 1..Len(spSimilarUsers) :
                       spSimilarUsers[k].login = firsts[k].login

C17_Witness ==
    /\ Completed
    /\ Len(spSet) >= 7
    /\ Cardinality(LoginsOf(Discovered)) >= 7
    /\ Len(spSimilarUsers) = 6

\* how the profile requests of the enrichment settled, one per candidate
ProfileSettlements == SelectSeq(spGot, LAMBDA a : a.endpoint = "profile")

\* C18: after the enrichment the result holds every candidate, in order and
\* with its reason; a candidate whose profile request answered non-2xx or
\* was rejected has a null name, every other candidate has the name its
\* profile carries, and the error state is not set.
C18_EnrichmentFailureKeepsCandidate ==
    (Similar /\ ProfileSettlements # <<>>) =>
        /\ spPc = "done"
        /\ spError = NoError
        /\ Len(spSimilarUsers) = Len(ProfileSettlements)
        /\ Len(spSimilarUsers) = Min(6, Len(spSet))
        /\ \A i \in 1..Len(spSimilarUsers) :
              /\ spSimilarUsers[i].login = spSet[i].login
              /\ spSimilarUsers[i].similarity_reason = spSet[i].similarity_reason
              /\ ProfileSettlements[i].kind \in {"nonok", "throw"} =>
                    spSimilarUsers[i].name = Null
              /\ ProfileSettlements[i].kind = "ok" =>
                    spSimilarUsers[i].name =
                       (IF spSet[i].login = "u2" THEN Null
                        ELSE "Name of " \o spSet[i].login)

C18_Witness ==
    /\ Similar
    /\ spPc = "done"
    /\ \E i, j \in 1..Len(spSimilarUsers) :
          /\ ProfileSettlements[i].kind = "throw"
          /\ spSimilarUsers[i].name = Null
          /\ spSimilarUsers[j].name = "Name of u3"

C18_WitnessNonOk ==
    /\ Similar
    /\ spPc = "done"
    /\ Len(spSimilarUsers) = 6
    /\ ProfileSettlements[6].kind = "nonok"
    /\ spSimilarUsers[6].name = Null
    /\ spSimilarUsers[1].name = "Name of u1"

\* no repository of the profile carries a language or a topic
NothingToGoOn ==
    \A i \in 1..Len(spRepos) :
        Falsy(spRepos[i].language) /\ spRepos[i].topics = <<>>

\* C19: with no repository, or with repositories that carry neither a
\* language nor a topic, the result is empty, no error is set and no
\* upstream call is ever made; with repositories the run ends at once, not
\* loading.
C19_NoSignalShortCircuits ==
    (Similar /\ NothingToGoOn) =>
        /\ calls = <<>>
        /\ spSimilarUsers = <<>>
        /\ spError = NoError
        /\ spGot = <<>>
        /\ spPc \in {"mount", "idle", "done"}
        /\ spPc = "done" => (Len(spRepos) > 0 /\ ~spLoading)
        /\ spPc = "idle" => Len(spRepos) = 0

C19_Witness ==
    /\ Similar
    /\ spPc = "done"
    /\ Len(spRepos) = 1
    /\ NothingToGoOn
    /\ spUser.followers > 0
    /\ calls = <<>>

C19_WitnessNoRepositories ==
    /\ Similar
    /\ spPc = "idle"
    /\ spRepos = <<>>
    /\ calls = <<>>

\* a request of a discovery strategy failed: non-2xx, unusable, or rejected
StrategyCallFailed ==
    \E i \in 1..Len(spGot) :
        /\ spGot[i].endpoint # "profile"
        /\ spGot[i].kind \in FailureKinds

\* C20: when a request of one strategy fails, the run still completes
\* without error, every other applicable strategy has issued its request,
\* and the logins the other strategies discovered are in the result.
C20_StrategiesAreIndependent ==
    (Similar /\ spPc = "done" /\ StrategyCallFailed) =>
        /\ spError = NoError
        /\ UserTopics(spRepos) # <<>> => Issued("topicSearch")
        /\ spUser.followers > 0 => Issued("followers")
        /\ LET firsts == FirstDiscoveries(Discovered)
           IN /\ Len(spSimilarUsers) = Min(6, Len(firsts))
              /\ \A k \in 1..Len(spSimilarUsers) :
                    spSimilarUsers[k].login = firsts[k].login

\* the part of C20 the code keeps: a non-2xx answer anywhere, and any
\* failure of a contributors or following request, leaves the run going
C20_InnerFailuresAreIsolated ==
    (/\ Similar
     /\ spPc = "done"
     /\ StrategyCallFailed
     /\ \A i \in 1..Len(spGot) :
           (spGot[i].kind \in {"throw", "malformed"}) =>
              spGot[i].endpoint \in {"repoContributors", "following", "profile"}) =>
        /\ spError = NoError
        /\ UserTopics(spRepos) # <<>> => Issued("topicSearch")
        /\ spUser.followers > 0 => Issued("followers")

(***************************************************************************)
(* ActivityGraph properties.                                               *)
(***************************************************************************)
\* the repository list of the run, once the repository request gave one
ActivityListed == Activity /\ agGot # <<>> /\ agGot[1].kind = "ok"
Listed == agGot[1].items
NonForksListed == {i \in 1..Len(Listed) : ~Listed[i].fork}

\* how the participation requests of the scan settled, in order
Participations == Tail(agGot)
Usable(a) == a.kind = "ok" /\ \E w \in 1..Len(a.items) : a.items[w] > 0

\* the non-fork of the list with exactly k - 1 non-forks pushed after it
KthMostRecentNonFork(k) ==
    CHOOSE i \in NonForksListed :
        Cardinality({j \in NonForksListed :
                       Listed[j].pushed_at > Listed[i].pushed_at}) = k - 1

\* C21: the scan asks for at most three repositories, the k-th being the
\* k-th most recently pushed non-fork; an answer with a non-zero owner week
\* is the last one asked for, ends the run, and the activity shown is
\* exactly the non-zero weeks of that answer, in order, whatever the
\* repositories after it would have answered.
C21_FirstActiveOfThreeMostRecentWins ==
    ActivityListed =>
        /\ Len(agScanned) <= 3
        /\ Len(agScanned) <= Cardinality(NonForksListed)
        /\ \A k \in 1..Len(agScanned) :
              agScanned[k] = Listed[KthMostRecentNonFork(k)].name
        /\ \A k \in 1..Len(Participations) :
              Usable(Participations[k]) =>
                LET owner == Participations[k].items
                    active == {w \in 1..Len(owner) : owner[w] > 0}
                IN /\ k = Len(Participations)
                   /\ k = Len(agScanned)
                   /\ agPc = "done"
                   /\ agError = NoError
                   /\ Len(agActivityData) = Cardinality(active)
                   /\ \A n \in 1..Len(agActivityData) :
                         /\ agActivityData[n].name \in active
                         /\ agActivityData[n].commits = owner[agActivityData[n].name]
                         /\ n > 1 => agActivityData[n - 1].name < agActivityData[n].name

C21_Witness ==
    /\ ActivityListed
    /\ agPc = "done"
    /\ Cardinality(NonForksListed) >= 3
    /\ Len(agScanned) = 2
    /\ Participations[1].kind = "throw"
    /\ Participations[2].items = <<0, 1, 0>>
    /\ Len(agActivityData) = 1

\* the scan is over and no answer showed owner activity
NothingUsable ==
    /\ ActivityListed
    /\ agPc = "done"
    /\ Len(Listed) > 0
    /\ \A k \in 1..Len(Participations) : ~Usable(Participations[k])

\* the stored activity is a monthly bucketing of the listed push times
IsMonthlyBucketing ==
    /\ agError = NoError
    /\ Len(agActivityData) >= 1
    /\ Len(agActivityData) <= 12
    /\ \A n \in 2..Len(agActivityData) :
          agActivityData[n - 1].date < agActivityData[n].date
    /\ \A n \in 1..Len(agActivityData) :
          agActivityData[n].commits =
             Cardinality({i \in 1..Len(Listed) :
                            Listed[i].pushed_at \div 2 = agActivityData[n].date})
    /\ \A i \in 1..Len(Listed) :
          \E n \in 1..Len(agActivityData) :
             agActivityData[n].date = Listed[i].pushed_at \div 2

\* C22: whenever the list is non-empty and no scanned repository showed
\* owner activity (every repository a fork, or every participation request
\* failed or empty), the stored activity is the monthly bucketing of the
\* push times: at most 12 buckets, ascending.
C22_FallbackToPushDates ==
    NothingUsable => IsMonthlyBucketing

\* the part of C22 the code keeps: the fallback when some repository is not
\* a fork
C22_FallbackWhenSomeNonFork ==
    (NothingUsable /\ NonForksListed # {}) => IsMonthlyBucketing

\* C23: when the repository request answers an empty list the run is over
\* with empty activity, not loading and without error, and no
\* participation request is made.
C23_NoRepositoriesIsEmptyActivity ==
    (ActivityListed /\ Listed = <<>>) =>
        /\ agPc = "done"
        /\ agActivityData = <<>>
        /\ ~agLoading
        /\ agError = NoError
        /\ ~Issued("participation")
        /\ agScanned = <<>>

C23_Witness ==
    /\ ActivityListed
    /\ Listed = <<>>
    /\ agPc = "done"
    /\ Len(calls) = 1

(***************************************************************************)
(* GitHubAuth properties.                                                  *)
(***************************************************************************)
VerificationFailed == gaGot.kind \in {"nonok", "throw"}

\* C24: a typed token is in localStorage only after the verification made
\* with that very token answered ok; a verification that answered non-2xx or
\* threw left localStorage and the authenticated flag as they were; after
\* logout (onTokenChange(null)) no token is stored; and so whenever
\* isAuthenticated is true a token is stored.
C24_TokenStoredOnlyAfterVerification ==
    GitHubAuth =>
      /\ localToken \in InputTokens =>
           gaGot.kind = "ok" /\ gaGot.token = localToken
      /\ VerificationFailed =>
           localToken = gaGot.stored /\ gaIsAuthenticated = gaGot.authenticated
      /\ gaOnTokenChange = Null => Falsy(localToken)
      /\ gaIsAuthenticated => ~Falsy(localToken)

\* a token was stored at mount, the user logged out, and a verification of a
\* typed token then failed
C24_Witness ==
    /\ GitHubAuth
    /\ VerificationFailed
    /\ gaOnTokenChange = Null
    /\ gaGot.token = "typed-token"
    /\ ~gaIsAuthenticated
    /\ localToken = Null

\* a typed token was verified and stored while another one is in the field
C24_WitnessStored ==
    /\ GitHubAuth
    /\ gaIsAuthenticated
    /\ localToken = "typed-token"
    /\ gaToken = "other-token"

(***************************************************************************)
(* Rate-limit route properties.                                            *)
(***************************************************************************)
RouteAnswered == GitHubAuth /\ gaRouteGot.status = 200

\* C29: the tokenSource the route reports matches the credential attached to
\* its upstream call: null when none was attached, 'environment' when the
\* server environment token was attached, 'client' only when the client's
\* token was the one attached; and null whenever the limit is at most 60.
C29_TokenSourceMatchesAttachedCredential ==
    RouteAnswered =>
      /\ gaRouteGot.attached = NoAuth => gaRouteGot.tokenSource = Null
      /\ gaRouteGot.tokenSource = "client" =>
           gaRouteGot.attached = Auth("token", gaRouteGot.clientToken)
      /\ (/\ gaRouteGot.attached = Auth("token", serverEnvToken)
          /\ gaRouteGot.limit > UnauthenticatedLimit) =>
           gaRouteGot.tokenSource = "environment"
      /\ gaRouteGot.limit <= UnauthenticatedLimit => gaRouteGot.tokenSource = Null

\* what the route does report: null without the server token or with a limit
\* of at most 60; with the server token attached it says 'client' exactly when
\* a client token came with the request and the public variable is set too
C29_TokenSourceAsCoded ==
    RouteAnswered =>
      /\ gaRouteGot.attached \in {NoAuth, Auth("token", serverEnvToken)}
      /\ gaRouteGot.attached = NoAuth => gaRouteGot.tokenSource = Null
      /\ gaRouteGot.limit <= UnauthenticatedLimit => gaRouteGot.tokenSource = Null
      /\ gaRouteGot.tokenSource = "client" <=>
           /\ gaRouteGot.attached # NoAuth
           /\ ~Falsy(gaRouteGot.clientToken)
           /\ ~Falsy(envToken)

(***************************************************************************)
(* Termination of the aggregators.                                         *)
(***************************************************************************)
Aggregators == {"ProfilePage", "PinnedRepos", "ProjectDetailsPage",
                "SimilarProfiles", "ActivityGraph"}

\* the loading flag of the mounted aggregator
StillLoading ==
    CASE component = "ProfilePage" -> loading
      [] component = "PinnedRepos" -> prLoading
      [] component = "ProjectDetailsPage" -> pdLoading
      [] component = "SimilarProfiles" -> spLoading
      [] component = "ActivityGraph" -> agLoading
      [] OTHER -> FALSE

\* every issued call has settled and the component has nothing left to do
Quiescent == component \in Aggregators /\ ~ENABLED Next

\* C25: an aggregator that has nothing left to do and no call outstanding has
\* left the loading state, for every input; in particular SimilarProfiles and
\* PinnedRepos given an empty repository list.
C25_QuiescentMeansLoaded == Quiescent => ~StillLoading

\* the only aggregators that stay loading are the two whose effect guard
\* skipped the run because the repository list is empty
C25_OnlySkippedRunsStayLoading ==
    Quiescent /\ StillLoading =>
      \/ component = "PinnedRepos" /\ prPc = "skipped" /\ prRepos = <<>>
      \/ component = "SimilarProfiles" /\ spPc = "idle" /\ spRepos = <<>>

(***************************************************************************)
(* ProjectsPage properties.                                                *)
(***************************************************************************)
\* the names a search must find, whatever the case of the query
NamesFound(searchQuery) ==
    CASE searchQuery = "AP" -> {"api", "Blog"}
      [] searchQuery = "tool" -> {"cli"}
      [] OTHER -> {"api", "Blog", "cli"}

PassesFilter(r) ==
    CASE ppFilter = "source" -> ~r.fork
      [] ppFilter = "forked" -> r.fork
      [] OTHER -> TRUE

InOrder(a, b) ==
    CASE ppSortBy = "stars" -> a.stargazers_count >= b.stargazers_count
      [] ppSortBy = "updated" -> a.updated_at >= b.updated_at
      [] OTHER -> LocaleRank(a.name) <= LocaleRank(b.name)

\* the list the last settled request delivered, empty after a failure
LastLoaded == IF ppGot.kind = "ok" THEN ppGot.items ELSE <<>>

\* C30: once the page is mounted, filteredRepos holds exactly the loaded
\* repositories that pass the current filter and the current search, each
\* once, ordered by the current sort key; and repos is still the list as the
\* last request delivered it.
C30_FilteredReposIsFilteredSortedView ==
    Projects /\ ppPc # "mount" =>
      /\ Range(ppFilteredRepos) =
           {r \in Range(ppRepos) :
              PassesFilter(r) /\ r.name \in NamesFound(ppSearchQuery)}
      /\ Len(ppFilteredRepos) = Cardinality(Range(ppFilteredRepos))
      /\ \A i, j \in 1..Len(ppFilteredRepos) :
           i < j => InOrder(ppFilteredRepos[i], ppFilteredRepos[j])
      /\ ppRepos = LastLoaded

\* a loaded list of forks and sources, filtered to the sources, searched and
\* sorted by name, so that the view is shorter than and ordered unlike repos
C30_Witness ==
    /\ Projects
    /\ ppRepos = Reverse(ProjectCatalog)
    /\ ppFilter = "source"
    /\ ppSortBy = "name"
    /\ ppSearchQuery = ""
    /\ Len(ppFilteredRepos) = 2
    /\ ppFilteredRepos[1].name = "api"

\* a search typed in capitals that finds a name and a description
C30_WitnessSearch ==
    /\ Projects
    /\ ppSearchQuery = "AP"
    /\ Len(ppFilteredRepos) = 2

(***************************************************************************)
(* Overlapping runs of the profile page.                                   *)
(***************************************************************************)
\* C26: on the profile page, whenever loading is false no run of
\* fetchGitHubProfile is still in flight.
C26_NotLoadingMeansNoRunInFlight ==
    ProfileRuns /\ ~loading => \A r \in Runs : ~RunInFlight(r)

\* with a single run (no stored token) loading is false only when it is over
C26_SingleRunLoadsUntilDone ==
    ProfileRuns /\ Falsy(localToken) /\ ~loading => \A r \in Runs : ~RunInFlight(r)

AllRunsFinished ==
    /\ ProfileRuns
    /\ ruStarted # <<>>
    /\ ~ruTokenChanged
    /\ \A r \in Runs : ~RunInFlight(r)

MostRecentRun == ruStarted[Len(ruStarted)]

\* C27: once every started run has finished, the page shows what the most
\* recently started run alone produces: after its success no error, the
\* profile and its repository list; after its failure no profile, no
\* repositories and no pinned repositories.
C27_LastStartedRunWins ==
    AllRunsFinished =>
      /\ ruResult[MostRecentRun] = "succeeded" =>
           /\ error = NoError
           /\ userData # Null
           /\ repos = ruReposData[MostRecentRun]
      /\ ruResult[MostRecentRun] = "failed" =>
           /\ userData = Null
           /\ repos = JsArray(<<>>)
           /\ pinnedRepos = <<>>

\* with a single run the page shows that run's result
C27_SingleRunWins ==
    AllRunsFinished /\ Len(ruStarted) = 1 =>
      /\ ruResult[1] = "succeeded" =>
           error = NoError /\ userData # Null /\ repos = ruReposData[1]
      /\ ruResult[1] = "failed" =>
           userData = Null /\ repos = JsArray(<<>>) /\ pinnedRepos = <<>>

(***************************************************************************)
(* ProjectDetailsPage across repositories.                                 *)
(***************************************************************************)
VisitFinished == Visits /\ nvPc = "done"

SectionEmpty(s) ==
    CASE s = "readme" -> pdReadme = EmptyStr
      [] s = "contributors" -> pdContributors = <<>>
      [] s = "languages" -> pdLanguages = <<>>

C28_FirstRunSectionsAreItsOwn ==
    VisitFinished /\ nvVisits = 1 =>
      \A s \in Sections :
         /\ nvStoredBy[s] \in {"", nvRepoName}
         /\ nvGot[s] = "failed" => SectionEmpty(s)

====
